---- MODULE Spec2Model ----
(***************************************************************************)
(* A model of src/core/string.c of Janet: the Knuth-Morris-Pratt cursor    *)
(* behind string/find, find-all, replace, replace-all and split, the bit   *)
(* set of string/check-set, and the Lua-style backtracking matcher behind  *)
(* string/match.                                                           *)
(*                                                                         *)
(* Bytes are integers (their ASCII codes).  A C buffer of length n is a    *)
(* sequence of n bytes; the C index k is the sequence index k + 1.         *)
(***************************************************************************)
EXTENDS Integers, Sequences, FiniteSets, TLC

VARIABLES
    fn,         \* the C function called: "find", "findall", "replace", "replaceall", "split", "match", "checkset"
    text,       \* the subject bytes (check-set: str)
    pat,        \* the pattern bytes (check-set: set)
    subst,      \* the substitute bytes (replace, replace-all)
    start,      \* the start argument (its default when it is not passed)
    maxsplit,   \* split: the limit argument (-1 when it is not passed)
    invert,     \* check-set: the third argument ("absent" when it is not passed)
    limit,      \* split: the variable limit
    state,      \* struct kmp_state: [i, j, lookup]
    ki, kj,     \* kmp_next: its locals i and j
    result,     \* the caller's variable result
    lastindex,  \* replace-all, split: lastindex
    out,        \* find-all, split: the array; replace-all: the buffer;
                \* check-set: bitset
    hits,       \* the offsets kmp_next has returned to the caller's loop body
    ret,        \* what the call returned (or how it ended)
    pc,         \* where the call is
    ub,         \* TRUE once the call has read or written outside an object
    ms,         \* string/match: the MatchState
    s1,         \* string/match: the offset of the next top-level attempt
    tried,      \* string/match: the top-level attempts made, in order: for
                \* each, its offset s and what match returned, res
    frames,     \* string/match, call by call: the calls that have not
                \* returned, the outermost first
    call        \* string/match, call by call: s and p of the running match

vars == <<fn, text, pat, subst, start, maxsplit, invert, limit, state, ki, kj, result,
          lastindex, out, hits, ret, pc, ub, ms, s1, tried, frames, call>>

\* The arguments of the call: no action changes them.
args == <<fn, text, pat, subst, start, maxsplit, invert>>
matchvars == <<ms, s1, tried, frames, call>>

(***************************************************************************)
(* Bytes                                                                   *)
(***************************************************************************)
Ord(c) ==
    CASE c = "a" -> 97  [] c = "b" -> 98  [] c = "c" -> 99  [] c = "d" -> 100
      [] c = "e" -> 101 [] c = "f" -> 102 [] c = "n" -> 110 [] c = "r" -> 114
      [] c = "i" -> 105
      [] c = "s" -> 115 [] c = "t" -> 116 [] c = "w" -> 119 [] c = "x" -> 120
      [] c = "A" -> 65  [] c = "D" -> 68  [] c = "X" -> 88
      [] c = "0" -> 48  [] c = "1" -> 49  [] c = "2" -> 50  [] c = "3" -> 51
      [] c = "4" -> 52  [] c = "9" -> 57
      [] c = "%" -> 37  [] c = "(" -> 40  [] c = ")" -> 41  [] c = "*" -> 42
      [] c = "+" -> 43  [] c = "," -> 44  [] c = "-" -> 45  [] c = "." -> 46
      [] c = "?" -> 63  [] c = "[" -> 91  [] c = "]" -> 93  [] c = "^" -> 94
      [] c = "$" -> 36  [] c = " " -> 32

\* The bytes of a string written as a tuple of one-character strings.
B(t) == [k \in 1..Len(t) |-> Ord(t[k])]

\* All byte sequences over alphabet A of length at most n.
RECURSIVE SeqsUpTo(_, _)
SeqsUpTo(A, n) ==
    IF n = 0 THEN {<< >>}
    ELSE LET S == SeqsUpTo(A, n - 1)
         IN  S \cup {Append(t, a) : t \in {u \in S : Len(u) = n - 1}, a \in A}

(***************************************************************************)
(* Bounds of the exact-match inputs                                        *)
(***************************************************************************)
MaxTextLen == 4
MaxPatLen == 2
MaxStart == 2
MaxLimit == 2

KmpAlphabet == {Ord("a"), Ord("b")}
KmpTexts == SeqsUpTo(KmpAlphabet, MaxTextLen)
KmpPats == SeqsUpTo(KmpAlphabet, MaxPatLen)
Substs == {<< >>, B(<<"X">>), B(<<"a", "b">>)}

\* The inputs of the documentation and of the specification's examples.
KmpExamples ==
    { [pat |-> B(<<"a","b","a">>), text |-> B(<<"a","b","a","b","a">>)],
      [pat |-> B(<<"a">>),         text |-> B(<<"b","a","n","a","n","a">>)],
      [pat |-> B(<<",">>),         text |-> B(<<"a",",","b",",",",","c">>)],
      [pat |-> B(<<"a","b">>),     text |-> B(<<"a","a","b","a","b">>)],
      [pat |-> B(<<"a","a","b","a","a","a">>),
       text |-> B(<<"a","a","b","a","a","b","a","a","a","b","a","a","a">>)] }

KmpInputs == [pat : KmpPats, text : KmpTexts] \cup KmpExamples

(***************************************************************************)
(* struct kmp_state and its functions                                      *)
(***************************************************************************)
\* An inner loop that falls back to the start of the pattern at once.
kmp_fallback_to_start(p, lookup, i, j) ==
    IF j # 0 /\ p[j + 1] # p[i + 1] THEN 0 ELSE j

\* kmp_init, the inner loop: while (j && pat[j] != pat[i]) j = lookup[j - 1];
RECURSIVE kmp_fallback(_, _, _, _)
kmp_fallback(p, lookup, i, j) ==
    IF j # 0 /\ p[j + 1] # p[i + 1]
    THEN kmp_fallback(p, lookup, i, lookup[(j - 1) + 1])
    ELSE j

\* kmp_init, the outer loop: for (i = 1, j = 0; i < patlen; i++) { ... }
RECURSIVE kmp_table(_, _, _, _)
kmp_table(p, lookup, i, j) ==
    IF i < Len(p)
    THEN LET j1 == kmp_fallback(p, lookup, i, j)
             j2 == IF p[j1 + 1] = p[i + 1] THEN j1 + 1 ELSE j1
         IN  kmp_table(p, [lookup EXCEPT ![i + 1] = j2], i + 1, j2)
    ELSE lookup

\* kmp_init: the table is calloc'ed (all zero), the cursor starts at (0, 0).
kmp_init(p) ==
    [i |-> 0, j |-> 0, lookup |-> kmp_table(p, [k \in 1..Len(p) |-> 0], 1, 0)]

\* A kmp_seti that moves the cursor and keeps the automaton state.
kmp_seti_keeps_j(st, i) == [st EXCEPT !.i = i]

\* kmp_seti
kmp_seti(st, i) == [st EXCEPT !.i = i, !.j = 0]

\* A kmp_next whose hit restarts the automaton at 0 instead of lookup[j].
kmp_iter_restarts(t, p, lookup, i, j, pb) ==
    IF t[i + 1] = pb
    THEN IF j = Len(p) - 1
         THEN [ret |-> TRUE, i |-> i + 1, j |-> 0, result |-> i - j]
         ELSE [ret |-> FALSE, i |-> i + 1, j |-> j + 1, result |-> -1]
    ELSE IF j > 0
         THEN [ret |-> FALSE, i |-> i, j |-> lookup[(j - 1) + 1], result |-> -1]
         ELSE [ret |-> FALSE, i |-> i + 1, j |-> j, result |-> -1]

\* A kmp_next that moves on in the text as it falls back in the pattern.
kmp_iter_skips_on_fallback(t, p, lookup, i, j, pb) ==
    IF t[i + 1] = pb
    THEN IF j = Len(p) - 1
         THEN [ret |-> TRUE, i |-> i + 1, j |-> lookup[j + 1], result |-> i - j]
         ELSE [ret |-> FALSE, i |-> i + 1, j |-> j + 1, result |-> -1]
    ELSE IF j > 0
         THEN [ret |-> FALSE, i |-> i + 1, j |-> lookup[(j - 1) + 1], result |-> -1]
         ELSE [ret |-> FALSE, i |-> i + 1, j |-> j, result |-> -1]

\* kmp_next, one turn of while (i < textlen) with i < textlen; pb is the byte
\* read as pat[j].  ret says whether the turn returned (a hit at result).
kmp_iter(t, p, lookup, i, j, pb) ==
    IF t[i + 1] = pb
    THEN IF j = Len(p) - 1
         THEN [ret |-> TRUE, i |-> i + 1, j |-> lookup[j + 1], result |-> i - j]
         ELSE [ret |-> FALSE, i |-> i + 1, j |-> j + 1, result |-> -1]
    ELSE IF j > 0
         THEN [ret |-> FALSE, i |-> i, j |-> lookup[(j - 1) + 1], result |-> -1]
         ELSE [ret |-> FALSE, i |-> i + 1, j |-> j, result |-> -1]

\* kmp_next as a whole, for a cursor whose reads stay inside the pattern and
\* the table: the returned offset (-1: none) and the cursor afterwards.
RECURSIVE kmp_scan(_, _, _, _, _)
kmp_scan(t, p, st, i, j) ==
    IF i < Len(t)
    THEN LET r == kmp_iter(t, p, st.lookup, i, j, p[j + 1])
         IN  IF r.ret
             THEN [result |-> r.result, state |-> [st EXCEPT !.i = r.i, !.j = r.j]]
             ELSE kmp_scan(t, p, st, r.i, r.j)
    ELSE [result |-> -1, state |-> st]

kmp_next(t, p, st) == kmp_scan(t, p, st, st.i, st.j)

(***************************************************************************)
(* Values returned to the caller                                           *)
(***************************************************************************)
Nil == [kind |-> "nil"]
WrapInt(n) == [kind |-> "int", val |-> n]
WrapStr(b) == [kind |-> "string", val |-> b]
WrapArr(a) == [kind |-> "array", val |-> a]
WrapBool(b) == [kind |-> "boolean", val |-> b]
Panic(msg) == [kind |-> "error", val |-> msg]
\* The call left defined behaviour: any result, or none, may follow.
Undefined == [kind |-> "undefined"]
Running == [kind |-> "running"]

\* The bytes t[from .. from + n) of a buffer.
Slice(t, from, n) == SubSeq(t, from + 1, from + n)

(***************************************************************************)
(* The exact-match functions                                               *)
(***************************************************************************)
KmpFns == {"find", "findall", "replace", "replaceall", "split"}

\* The MatchState before prepstate
MatchIdle ==
    [level |-> 0, capture |-> << >>, matchdepth |-> 0, err |-> "", eb |-> 0,
     oob |-> FALSE, nopen |-> 0, nclose |-> 0, probes |-> {},
     returned |-> {}]

KmpInit ==
    /\ fn \in KmpFns
    /\ \E inp \in KmpInputs : pat = inp.pat /\ text = inp.text
    /\ subst \in (IF fn \in {"replace", "replaceall"} THEN Substs ELSE {<< >>})
    /\ start \in -1..MaxStart
    /\ maxsplit \in (IF fn = "split" THEN -1..MaxLimit ELSE {-1})
    /\ invert = "absent"
    /\ limit = -1
    /\ state = [i |-> 0, j |-> 0, lookup |-> << >>]
    /\ ki = 0 /\ kj = 0
    /\ result = -1
    /\ lastindex = 0
    /\ out = << >>
    /\ hits = << >>
    /\ ret = Running
    /\ pc = "entry"
    /\ ub = FALSE
    /\ ms = MatchIdle /\ s1 = 0 /\ tried = << >>
    /\ frames = << >> /\ call = [s |-> 0, p |-> 0]

\* findsetup and replacesetup (and, before it, the limit of split): the start
\* index is checked, then kmp_init builds the table, the cursor is moved to
\* start and the first kmp_next is entered.  Allocation is taken to succeed.
findsetup ==
    /\ pc = "entry" /\ fn \in KmpFns
    /\ limit' = maxsplit
    /\ \/ /\ start < 0
          /\ ret' = Panic("expected non-negative start index")
          /\ pc' = "done"
          /\ UNCHANGED <<state, ki, kj>>
       \/ /\ start >= 0
          /\ state' = [kmp_init(pat) EXCEPT !.i = start]
          /\ ki' = state'.i /\ kj' = state'.j
          /\ pc' = "scan"
          /\ ret' = ret
    /\ UNCHANGED <<args, result, lastindex, out, hits, ub, matchvars>>

\* The bytes a read of pat[j] can give: outside the pattern, any byte.
PatRead(j) == IF j < Len(pat) THEN {pat[j + 1]} ELSE KmpAlphabet \cup {0}

\* kmp_next: one turn of its loop, or its return of -1.  A hit stores the
\* cursor back into the state; a return of -1 does not.
kmp_next_step ==
    /\ pc = "scan"
    /\ \/ /\ ki < Len(text)
          /\ \E pb \in PatRead(kj) :
                \/ /\ ~(text[ki + 1] # pb /\ kj > 0 /\ kj - 1 >= Len(pat))
                   /\ LET r == kmp_iter(text, pat, state.lookup, ki, kj, pb)
                      IN  /\ ki' = r.i /\ kj' = r.j
                          /\ result' = r.result
                          /\ state' = IF r.ret THEN [state EXCEPT !.i = r.i, !.j = r.j]
                                                ELSE state
                          /\ pc' = IF r.ret THEN "ret" ELSE "scan"
                          /\ ret' = ret
                   /\ ub' = (ub \/ kj >= Len(pat))
                \/ /\ text[ki + 1] # pb /\ kj > 0 /\ kj - 1 >= Len(pat)
                   \* lookup[j - 1] is read outside the table
                   /\ ub' = TRUE
                   /\ ret' = Undefined
                   /\ pc' = "done"
                   /\ UNCHANGED <<ki, kj, result, state>>
       \/ /\ ki >= Len(text)
          /\ result' = -1
          /\ pc' = "ret"
          /\ UNCHANGED <<ki, kj, state, ret, ub>>
    /\ UNCHANGED <<args, limit, lastindex, out, hits,
                   matchvars>>

\* cfun_string_find, after kmp_next
cfun_string_find ==
    /\ pc = "ret" /\ fn = "find"
    /\ ret' = IF result < 0 THEN Nil ELSE WrapInt(result)
    /\ pc' = "done"
    /\ UNCHANGED <<args, limit, state, ki, kj, result,
                   lastindex, out, hits, ub, matchvars>>

\* cfun_string_findall: while ((result = kmp_next(&state)) >= 0) push
cfun_string_findall ==
    /\ pc = "ret" /\ fn = "findall"
    /\ \/ /\ result >= 0
          /\ out' = Append(out, result)
          /\ hits' = Append(hits, result)
          /\ ki' = state.i /\ kj' = state.j
          /\ pc' = "scan"
          /\ ret' = ret
       \/ /\ result < 0
          /\ ret' = WrapArr(out)
          /\ pc' = "done"
          /\ UNCHANGED <<out, hits, ki, kj>>
    /\ UNCHANGED <<args, limit, state, result,
                   lastindex, ub, matchvars>>

\* A replace that copies the suffix from after the substitute's length, not
\* the pattern's.
replace_buf_skips_subst(t, p, sub, r) ==
    Slice(t, 0, r) \o sub \o Slice(t, r + Len(sub), Len(t) - r - Len(sub))

\* cfun_string_replace, its three memcpy: the text before the hit at r, the
\* substitute, the text after the hit
replace_buf(t, p, sub, r) ==
    Slice(t, 0, r) \o sub \o Slice(t, r + Len(p), Len(t) - r - Len(p))

\* cfun_string_replace, after kmp_next
cfun_string_replace ==
    /\ pc = "ret" /\ fn = "replace"
    /\ \/ /\ result < 0
          /\ ret' = WrapStr(text)
          /\ UNCHANGED hits
       \/ /\ result >= 0
          /\ ret' = WrapStr(replace_buf(text, pat, subst, result))
          /\ hits' = Append(hits, result)
    /\ pc' = "done"
    /\ UNCHANGED <<args, limit, state, ki, kj, result,
                   lastindex, out, ub, matchvars>>

\* cfun_string_replaceall: the loop body rewinds the cursor to the end of the
\* hit with kmp_seti; after the loop the rest of the text is pushed.
cfun_string_replaceall ==
    /\ pc = "ret" /\ fn = "replaceall"
    /\ \/ /\ result >= 0
          /\ out' = out \o Slice(text, lastindex, result - lastindex) \o subst
          /\ hits' = Append(hits, result)
          /\ lastindex' = result + Len(pat)
          /\ state' = kmp_seti(state, result + Len(pat))
          /\ ki' = state'.i /\ kj' = state'.j
          /\ pc' = "scan"
          /\ ret' = ret
       \/ /\ result < 0
          /\ out' = out \o Slice(text, lastindex, Len(text) - lastindex)
          /\ ret' = WrapStr(out')
          /\ pc' = "done"
          /\ UNCHANGED <<hits, lastindex, state, ki, kj>>
    /\ UNCHANGED <<args, limit, result, ub, matchvars>>

\* cfun_string_split: while ((result = kmp_next(&state)) >= 0 && limit--)
\* pushes text[lastindex .. result); the cursor is not rewound.  A slice of
\* negative length is outside defined behaviour.
cfun_string_split ==
    /\ pc = "ret" /\ fn = "split"
    /\ \/ /\ result >= 0 /\ limit # 0 /\ result - lastindex >= 0
          /\ out' = Append(out, Slice(text, lastindex, result - lastindex))
          /\ hits' = Append(hits, result)
          /\ limit' = limit - 1
          /\ lastindex' = result + Len(pat)
          /\ ki' = state.i /\ kj' = state.j
          /\ pc' = "scan"
          /\ UNCHANGED <<ret, ub>>
       \/ /\ result >= 0 /\ limit # 0 /\ result - lastindex < 0
          /\ hits' = Append(hits, result)
          /\ limit' = limit - 1
          /\ ub' = TRUE
          /\ ret' = Undefined
          /\ pc' = "done"
          /\ UNCHANGED <<out, lastindex, ki, kj>>
       \/ /\ result < 0 \/ limit = 0
          /\ limit' = IF result >= 0 THEN limit - 1 ELSE limit
          /\ out' = Append(out, Slice(text, lastindex, Len(text) - lastindex))
          /\ ret' = WrapArr(out')
          /\ pc' = "done"
          /\ UNCHANGED <<hits, lastindex, ki, kj, ub>>
    /\ UNCHANGED <<args, state, result, matchvars>>

KmpNext ==
    \/ findsetup
    \/ kmp_next_step
    \/ cfun_string_find
    \/ cfun_string_findall
    \/ cfun_string_replace
    \/ cfun_string_replaceall
    \/ cfun_string_split

SpecKmp == KmpInit /\ [][KmpNext]_vars

(***************************************************************************)
(* string/check-set                                                        *)
(*                                                                         *)
(* bitset is an array of 8 uint32_t; a word is modelled as the set of its  *)
(* bits that are 1, numbered from 0, the least significant.                *)
(***************************************************************************)
MaxSetLen == 2
MaxStrLen == 3

\* 'a' and 'i' have the same three high bits and the same three low bits;
\* 'A' and 'a' differ in the high bits, 'a' and 'b' in the low bits.
SetAlphabet == {Ord("a"), Ord("b"), Ord("i"), Ord("A")}

CheckSetInit ==
    /\ fn = "checkset"
    /\ pat \in SeqsUpTo(SetAlphabet, MaxSetLen)
    /\ text \in SeqsUpTo(SetAlphabet, MaxStrLen)
    /\ invert \in {"absent", "false", "true"}
    /\ subst = << >> /\ start = 0 /\ maxsplit = -1 /\ limit = -1
    /\ state = [i |-> 0, j |-> 0, lookup |-> << >>]
    /\ ki = 0 /\ kj = 0
    /\ result = -1
    /\ lastindex = 0
    /\ out = [k \in 1..8 |-> {}]
    /\ hits = << >>
    /\ ret = Running
    /\ pc = "populate"
    /\ ub = FALSE
    /\ ms = MatchIdle /\ s1 = 0 /\ tried = << >>
    /\ frames = << >> /\ call = [s |-> 0, p |-> 0]

\* int index = byte >> 5;
bitset_index(byte) == byte \div 32

\* uint32_t mask = 1 << (byte & 7): the bit of the mask
bitset_mask(byte) == byte % 8

checksetvars == <<state, kj, result, lastindex, hits, ub, limit, matchvars>>

\* for (i = 0; i < set.len; i++) bitset[index] |= mask;
checkset_populate ==
    /\ pc = "populate" /\ fn = "checkset"
    /\ \/ /\ ki < Len(pat)
          /\ out' = [out EXCEPT ![bitset_index(pat[ki + 1]) + 1] =
                                   @ \cup {bitset_mask(pat[ki + 1])}]
          /\ ki' = ki + 1
          /\ pc' = pc
       \/ /\ ki >= Len(pat)
          /\ pc' = "invert"
          /\ UNCHANGED <<out, ki>>
    /\ UNCHANGED <<args, ret, checksetvars>>

\* if (argc == 3) if (janet_getboolean(argv, 2)) bitset[i] = ~bitset[i];
checkset_invert ==
    /\ pc = "invert" /\ fn = "checkset"
    /\ out' = IF invert = "true" THEN [k \in 1..8 |-> (0..31) \ out[k]] ELSE out
    /\ ki' = 0
    /\ pc' = "check"
    /\ UNCHANGED <<args, ret, checksetvars>>

\* for (i = 0; i < str.len; i++) if (!(bitset[index] & mask)) return false;
\* return true;
checkset_check ==
    /\ pc = "check" /\ fn = "checkset"
    /\ \/ /\ ki < Len(text)
          /\ bitset_mask(text[ki + 1]) \notin out[bitset_index(text[ki + 1]) + 1]
          /\ ret' = WrapBool(FALSE)
          /\ pc' = "done"
          /\ ki' = ki
       \/ /\ ki < Len(text)
          /\ bitset_mask(text[ki + 1]) \in out[bitset_index(text[ki + 1]) + 1]
          /\ ki' = ki + 1
          /\ UNCHANGED <<ret, pc>>
       \/ /\ ki >= Len(text)
          /\ ret' = WrapBool(TRUE)
          /\ pc' = "done"
          /\ ki' = ki
    /\ UNCHANGED <<args, out, checksetvars>>

CheckSetNext ==
    \/ checkset_populate
    \/ checkset_invert
    \/ checkset_check

SpecCheckSet == CheckSetInit /\ [][CheckSetNext]_vars

(***************************************************************************)
(* The pattern-match engine (adapted from lua/lstrlib.c)                   *)
(*                                                                         *)
(* Positions in the subject and in the pattern are offsets from src_init   *)
(* and from the start of the pattern string; src_end is Len(text) and      *)
(* p_end is Len(pat).  NULL is -1.  The pattern is a Janet string, so the  *)
(* byte at p_end is its terminating NUL.  The subject is any byte view:    *)
(* the byte at src_end is outside it, and a read of it gives the byte eb   *)
(* that happens to lie there.                                              *)
(*                                                                         *)
(* The functions take and return the MatchState in a record m that also    *)
(* carries: err, the message of the janet_panic that ended the call ("":   *)
(* none); eb; oob, whether the byte at src_end was read; nopen and nclose, *)
(* the captures opened and closed so far; probes, one record per call of   *)
(* match that returned NULL (the state at entry and at return); returned,  *)
(* matchdepth at the entry and at the return of each call of match that    *)
(* returned.                                                               *)
(***************************************************************************)
CAP_UNFINISHED == -1
CAP_POSITION == -2
MAXCAPTURES == 256
MAXCCALLS == 200
CHAR_ESC == 37
NULL == -1

src_end == Len(text)
p_end == Len(pat)

\* *p for a pattern position p <= p_end
PatAt(p) == IF p < Len(pat) THEN pat[p + 1] ELSE 0

\* *s for a subject position s <= src_end
SubjAt(m, s) == IF s < Len(text) THEN text[s + 1] ELSE m.eb

\* m after a read of *s
Touch(m, s) == IF s < Len(text) THEN m ELSE [m EXCEPT !.oob = TRUE]

Ret(m, s) == [s |-> s, m |-> m]
Raise(m, msg) == [s |-> NULL, m |-> [m EXCEPT !.err = msg]]

\* <ctype.h> in the "C" locale
isdigit(c) == 48 <= c /\ c <= 57
isupper(c) == 65 <= c /\ c <= 90
islower(c) == 97 <= c /\ c <= 122
isalpha(c) == isupper(c) \/ islower(c)
isalnum(c) == isalpha(c) \/ isdigit(c)
isxdigit(c) == isdigit(c) \/ (65 <= c /\ c <= 70) \/ (97 <= c /\ c <= 102)
isspace(c) == (9 <= c /\ c <= 13) \/ c = 32
iscntrl(c) == (0 <= c /\ c <= 31) \/ c = 127
isgraph(c) == 33 <= c /\ c <= 126
ispunct(c) == isgraph(c) /\ ~isalnum(c)
tolower(c) == IF isupper(c) THEN c + 32 ELSE c

\* A check_capture that lets an unfinished capture through.
check_capture_unfinished_ok(m, l) ==
    LET k == l - Ord("1")
    IN  IF k < 0 \/ k >= m.level THEN -1 ELSE k

\* check_capture: the capture index of the byte l, or -1 where it panics
check_capture(m, l) ==
    LET k == l - Ord("1")
    IN  IF k < 0 \/ k >= m.level \/ m.capture[k + 1].len = CAP_UNFINISHED
        THEN -1
        ELSE k

\* capture_to_close: the last unfinished capture, or -1 where it panics
RECURSIVE capture_scan(_, _)
capture_scan(m, level) ==
    IF level < 0 THEN -1
    ELSE IF m.capture[level + 1].len = CAP_UNFINISHED THEN level
    ELSE capture_scan(m, level - 1)

capture_to_close(m) == capture_scan(m, m.level - 1)

\* classend, case '[': the do-while looking for the ']'; -1 where it panics
RECURSIVE classend_set(_)
classend_set(p) ==
    IF p = p_end THEN -1
    ELSE LET p1 == p + 1
             p2 == IF PatAt(p) = CHAR_ESC /\ p1 < p_end THEN p1 + 1 ELSE p1
         IN  IF PatAt(p2) # Ord("]") THEN classend_set(p2) ELSE p2 + 1

\* classend: the position after the single-byte class at p; -1 for the panic
\* "malformed pattern (ends with '%%')", -2 for "malformed pattern (missing ']')"
classend(p) ==
    LET p1 == p + 1
    IN  IF PatAt(p) = CHAR_ESC
        THEN IF p1 = p_end THEN -1 ELSE p1 + 1
        ELSE IF PatAt(p) = Ord("[")
        THEN LET e == classend_set(IF PatAt(p1) = Ord("^") THEN p1 + 1 ELSE p1)
             IN  IF e = -1 THEN -2 ELSE e
        ELSE p1

\* The messages are handed to janet_panic as written, "%%" included.
classend_error(e) ==
    IF e = -1 THEN "malformed pattern (ends with '%%')"
    ELSE "malformed pattern (missing ']')"

match_class(c, cl) ==
    LET lc == tolower(cl)
        res == CASE lc = Ord("a") -> isalpha(c)
                 [] lc = Ord("c") -> iscntrl(c)
                 [] lc = Ord("d") -> isdigit(c)
                 [] lc = 103 -> isgraph(c)
                 [] lc = 108 -> islower(c)
                 [] lc = 112 -> ispunct(c)
                 [] lc = Ord("s") -> isspace(c)
                 [] lc = 117 -> isupper(c)
                 [] lc = Ord("w") -> isalnum(c)
                 [] lc = Ord("x") -> isxdigit(c)
                 [] lc = 122 -> c = 0
                 [] OTHER -> FALSE
    IN  IF lc \in {Ord("a"), Ord("c"), Ord("d"), 103, 108, 112, Ord("s"), 117,
                   Ord("w"), Ord("x"), 122}
        THEN (IF islower(cl) THEN res ELSE ~res)
        ELSE cl = c

\* matchbracketclass, its loop while (++p < ec), entered with p not yet
\* incremented
RECURSIVE bracket_loop(_, _, _, _)
bracket_loop(c, p0, ec, sig) ==
    LET p == p0 + 1
    IN  IF ~(p < ec) THEN ~sig
        ELSE IF PatAt(p) = CHAR_ESC
        THEN IF match_class(c, PatAt(p + 1)) THEN sig
             ELSE bracket_loop(c, p + 1, ec, sig)
        ELSE IF PatAt(p + 1) = Ord("-") /\ p + 2 < ec
        THEN IF PatAt(p) <= c /\ c <= PatAt(p + 2) THEN sig
             ELSE bracket_loop(c, p + 2, ec, sig)
        ELSE IF PatAt(p) = c THEN sig
        ELSE bracket_loop(c, p, ec, sig)

\* matchbracketclass: p is at the '[', ec at the ']'
matchbracketclass(c, p, ec) ==
    IF PatAt(p + 1) = Ord("^")
    THEN bracket_loop(c, p + 1, ec, FALSE)
    ELSE bracket_loop(c, p, ec, TRUE)

singlematch(s, p, ep) ==
    IF s >= src_end THEN FALSE
    ELSE LET c == text[s + 1]
         IN  IF PatAt(p) = Ord(".") THEN TRUE
             ELSE IF PatAt(p) = CHAR_ESC THEN match_class(c, PatAt(p + 1))
             ELSE IF PatAt(p) = Ord("[") THEN matchbracketclass(c, p, ep - 1)
             ELSE PatAt(p) = c

\* A loop of matchbalance that looks for the opening byte before the closing
\* one.
RECURSIVE balance_loop_open_first(_, _, _, _)
balance_loop_open_first(s0, b, e, cont) ==
    LET s == s0 + 1
    IN  IF ~(s < src_end) THEN NULL
        ELSE IF text[s + 1] = b THEN balance_loop_open_first(s, b, e, cont + 1)
        ELSE IF text[s + 1] = e
        THEN IF cont - 1 = 0 THEN s + 1
             ELSE balance_loop_open_first(s, b, e, cont - 1)
        ELSE balance_loop_open_first(s, b, e, cont)

\* matchbalance, its loop while (++s < ms->src_end)
RECURSIVE balance_loop(_, _, _, _)
balance_loop(s0, b, e, cont) ==
    LET s == s0 + 1
    IN  IF ~(s < src_end) THEN NULL
        ELSE IF text[s + 1] = e
        THEN IF cont - 1 = 0 THEN s + 1 ELSE balance_loop(s, b, e, cont - 1)
        ELSE IF text[s + 1] = b THEN balance_loop(s, b, e, cont + 1)
        ELSE balance_loop(s, b, e, cont)

\* A matchbalance that does not look for its two arguments.
matchbalance_unchecked(m, s, p) ==
    IF SubjAt(m, s) # PatAt(p) THEN Ret(Touch(m, s), NULL)
    ELSE Ret(Touch(m, s), balance_loop(s, PatAt(p), PatAt(p + 1), 1))

matchbalance(m, s, p) ==
    IF p >= p_end - 1
    THEN Raise(m, "malformed pattern (missing arguments to '%%b')")
    ELSE IF SubjAt(m, s) # PatAt(p) THEN Ret(Touch(m, s), NULL)
    ELSE Ret(Touch(m, s), balance_loop(s, PatAt(p), PatAt(p + 1), 1))

\* A first loop of max_expand that stops after one byte.
max_run_at_most_one(s, p, ep, i) ==
    IF i = 0 /\ singlematch(s, p, ep) THEN 1 ELSE i

\* max_expand, its first loop: the number of bytes from s on that match
RECURSIVE max_run(_, _, _, _)
max_run(s, p, ep, i) ==
    IF singlematch(s + i, p, ep) THEN max_run(s, p, ep, i + 1) ELSE i

\* match_capture
match_capture(m, s, l) ==
    LET k == check_capture(m, l)
    IN  IF k = -1 THEN Raise(m, "invalid capture index")
        ELSE LET len == m.capture[k + 1].len
                 init == m.capture[k + 1].init
             IN  \* len is a size_t: CAP_POSITION is larger than any subject
                 IF len >= 0 /\ src_end - s >= len
                    /\ Slice(text, init, len) = Slice(text, s, len)
                 THEN Ret(m, s + len)
                 ELSE Ret(m, NULL)

\* What a call of match that returned NULL left behind: the state it was
\* entered with and the state it returned with (the captures below the level
\* at entry).
Probe(m0, m1) ==
    [level0 |-> m0.level, depth0 |-> m0.matchdepth,
     capture0 |-> SubSeq(m0.capture, 1, m0.level),
     level1 |-> m1.level, depth1 |-> m1.matchdepth,
     capture1 |-> SubSeq(m1.capture, 1, m0.level),
     opened |-> m1.nopen - m0.nopen, closed |-> m1.nclose - m0.nclose]

\* What a call returned: a position (Matched), NULL (Failed), or it panicked.
Failed(res) == res.m.err = "" /\ res.s = NULL
Matched(res) == res.m.err = "" /\ res.s # NULL

RECURSIVE match(_, _, _)
RECURSIVE match_init(_, _, _)
RECURSIVE match_dflt(_, _, _, _)
RECURSIVE max_expand(_, _, _, _, _)
RECURSIVE min_expand(_, _, _, _)
RECURSIVE start_capture(_, _, _, _)
RECURSIVE end_capture(_, _, _)

\* max_expand, its second loop, once match(ms, s + i, ep + 1) has returned
\* res: if (res) return res; i--;
max_expand_res(res, s, p, ep, i) ==
    IF Failed(res) THEN max_expand(res.m, s, p, ep, i - 1) ELSE res

\* max_expand, its second loop: while (i >= 0) { match(ms, s + i, ep + 1) .. }
max_expand(m, s, p, ep, i) ==
    IF i >= 0
    THEN max_expand_res(match(m, s + i, ep + 1), s, p, ep, i)
    ELSE Ret(m, NULL)

\* min_expand once match(ms, s, ep + 1) has returned res
min_expand_res(res, s, p, ep) ==
    IF ~Failed(res) THEN res
    ELSE IF singlematch(s, p, ep) THEN min_expand(res.m, s + 1, p, ep)
    ELSE Ret(res.m, NULL)

min_expand(m, s, p, ep) == min_expand_res(match(m, s, ep + 1), s, p, ep)

\* start_capture once match has returned res: ms->level-- undoes the capture
start_capture_res(res) ==
    IF Failed(res) THEN Ret([res.m EXCEPT !.level = (@ + 255) % 256], NULL)
    ELSE res

\* ms->level is an unsigned char
start_capture(m, s, p, what) ==
    IF m.level >= MAXCAPTURES THEN Raise(m, "too many captures")
    ELSE start_capture_res(
           match([m EXCEPT
                    !.capture = IF m.level < Len(@)
                                THEN [@ EXCEPT ![m.level + 1] =
                                                  [init |-> s, len |-> what]]
                                ELSE Append(@, [init |-> s, len |-> what]),
                    !.level = (m.level + 1) % 256,
                    !.nopen = @ + 1], s, p))

\* An end_capture that leaves the capture closed when the rest fails.
end_capture_keeps_closed(m, s, p) ==
    LET l == capture_to_close(m)
    IN  IF l = -1 THEN Raise(m, "invalid pattern capture")
        ELSE match([m EXCEPT !.capture[l + 1].len = s - m.capture[l + 1].init,
                             !.nclose = @ + 1], s, p)

\* end_capture once match has returned res: capture l is undone
end_capture_res(res, l) ==
    IF Failed(res)
    THEN Ret([res.m EXCEPT !.capture[l + 1].len = CAP_UNFINISHED], NULL)
    ELSE res

\* end_capture for l = capture_to_close(ms)
end_capture_at(m, s, p, l) ==
    IF l = -1 THEN Raise(m, "invalid pattern capture")
    ELSE end_capture_res(
           match([m EXCEPT !.capture[l + 1].len = s - m.capture[l + 1].init,
                           !.nclose = @ + 1], s, p), l)

end_capture(m, s, p) == end_capture_at(m, s, p, capture_to_close(m))

\* match, suffix '?', once match(ms, s + 1, ep + 1) has returned res
optional_res(res, s, ep) ==
    IF Failed(res) THEN match_init(res.m, s, ep + 1) ELSE res

\* match, the default case: a single-byte class that ends at ep, and its
\* optional suffix
match_dflt(m, s, p, ep) ==
    IF ep < 0 THEN Raise(m, classend_error(ep))
    ELSE IF ~singlematch(s, p, ep)
    THEN IF PatAt(ep) \in {Ord("*"), Ord("?"), Ord("-")}
         THEN match_init(m, s, ep + 1)
         ELSE Ret(m, NULL)
    ELSE IF PatAt(ep) = Ord("?")
    THEN optional_res(match(m, s + 1, ep + 1), s, ep)
    ELSE IF PatAt(ep) = Ord("+")
    THEN max_expand(m, s + 1, p, ep, max_run(s + 1, p, ep, 0))
    ELSE IF PatAt(ep) = Ord("*")
    THEN max_expand(m, s, p, ep, max_run(s, p, ep, 0))
    ELSE IF PatAt(ep) = Ord("-")
    THEN min_expand(m, s, p, ep)
    ELSE match_init(m, s + 1, ep)

\* match, after matchbalance or match_capture has returned r:
\* if (s != NULL) { p += ..; goto init; }
goto_init(r, p) ==
    IF Matched(r) THEN match_init(r.m, r.s, p) ELSE r

\* match, case 'f': the frontier set starts at p and ends at ep
frontier(m, s, p, ep) ==
    IF ep < 0 THEN Raise(m, classend_error(ep))
    ELSE IF matchbracketclass(IF s = 0 THEN 0 ELSE text[(s - 1) + 1], p, ep - 1)
    THEN Ret(m, NULL)
    ELSE IF matchbracketclass(SubjAt(m, s), p, ep - 1)
    THEN match_init(Touch(m, s), s, ep)
    ELSE Ret(Touch(m, s), NULL)

\* match from its label init on (a goto init is a call of match_init)
match_init(m, s, p) ==
    IF p = p_end THEN Ret(m, s)
    ELSE IF PatAt(p) = Ord("(")
    THEN IF PatAt(p + 1) = Ord(")")
         THEN start_capture(m, s, p + 2, CAP_POSITION)
         ELSE start_capture(m, s, p + 1, CAP_UNFINISHED)
    ELSE IF PatAt(p) = Ord(")")
    THEN end_capture(m, s, p + 1)
    ELSE IF PatAt(p) = Ord("$") /\ p + 1 = p_end
    THEN Ret(m, IF s = src_end THEN s ELSE NULL)
    ELSE IF PatAt(p) = CHAR_ESC /\ PatAt(p + 1) = Ord("b")
    THEN goto_init(matchbalance(m, s, p + 2), p + 4)
    ELSE IF PatAt(p) = CHAR_ESC /\ PatAt(p + 1) = Ord("f")
    THEN IF PatAt(p + 2) # Ord("[")
         THEN Raise(m, "missing '[' after '%%f' in pattern")
         ELSE frontier(m, s, p + 2, classend(p + 2))
    ELSE IF PatAt(p) = CHAR_ESC /\ isdigit(PatAt(p + 1))
    THEN goto_init(match_capture(m, s, PatAt(p + 1)), p + 2)
    ELSE match_dflt(m, s, p, classend(p))

\* A match that gives its unit of matchdepth back only when it has matched.
match_res_leaks_depth(m, r) ==
    IF r.m.err # "" THEN r
    ELSE LET m1 == [r.m EXCEPT
                      !.matchdepth = IF r.s = NULL THEN @ ELSE @ + 1,
                      !.returned = @ \cup {[depth0 |-> m.matchdepth,
                                            depth1 |-> IF r.s = NULL
                                                       THEN r.m.matchdepth
                                                       ELSE r.m.matchdepth + 1]}]
         IN  IF r.s = NULL
             THEN Ret([m1 EXCEPT !.probes = @ \cup {Probe(m, m1)}], NULL)
             ELSE Ret(m1, r.s)

\* match once its body has returned r to a call entered with m: matchdepth
\* is given back, and a NULL is recorded with what the call left behind
match_res(m, r) ==
    IF r.m.err # "" THEN r
    ELSE LET m1 == [r.m EXCEPT
                      !.matchdepth = @ + 1,
                      !.returned = @ \cup {[depth0 |-> m.matchdepth,
                                            depth1 |-> r.m.matchdepth + 1]}]
         IN  IF r.s = NULL
             THEN Ret([m1 EXCEPT !.probes = @ \cup {Probe(m, m1)}], NULL)
             ELSE Ret(m1, r.s)

match(m, s, p) ==
    IF m.matchdepth = 0
    THEN Raise([m EXCEPT !.matchdepth = @ - 1], "pattern too complex")
    ELSE match_res(m, match_init([m EXCEPT !.matchdepth = @ - 1], s, p))

(***************************************************************************)
(* string/match                                                            *)
(***************************************************************************)
\* Bounds of the pattern-match inputs
MaxPatternLen == 2
MaxSubjectLen == 2

PatternAlphabet ==
    {Ord("a"), Ord("b"), Ord("1"), Ord("%"), Ord("("), Ord(")"), Ord("["),
     Ord("]"), Ord("*"), Ord("-")}
SubjectAlphabet == {Ord("a"), Ord("b")}

\* Patterns of the documentation, of the specification's examples and of each
\* construct of the dialect, well-formed and malformed.
PatternExamples ==
    { B(<<"(","%","d","+",")","-","(","%","d","+",")">>),
      B(<<"%","b","(",")">>),
      B(<<"%","b","a","b","a">>),
      B(<<"%","f","[","a","]">>),
      B(<<"%","f","[","%","w","]","a">>),
      B(<<"a","%","f","[","^","a","]">>),
      B(<<"^","a">>), B(<<"^","b","*","a">>), B(<<"^","(","a",")","$">>),
      B(<<"a","$">>), B(<<"a","$","b">>), B(<<"$">>),
      B(<<"(","a",")","(",")">>),
      B(<<"(",")","a","(",")">>),
      B(<<"(","a","*",")","b">>),
      B(<<"(","a","*","(",".",")",")","%","2">>),
      B(<<"(","a","-",")","(","b","?",")">>),
      B(<<"(",".",")","%","1">>),
      B(<<"(",")","%","1">>),
      B(<<"a","?","b">>), B(<<"a","+","b">>), B(<<"a","-","b">>),
      B(<<".","*","b">>), B(<<".","-","b">>), B(<<".","?","a","+">>),
      B(<<"[","^","a","]","+">>), B(<<"[","a","-","c","]","*","b">>),
      B(<<"[","%","a","1","]","+">>), B(<<"[","]","]">>),
      B(<<"%","D","+">>), B(<<"%","(","a","%",")">>),
      B(<<"%","b">>), B(<<"%","f">>), B(<<"%","b","a">>), B(<<"%","f","a">>),
      B(<<"a","%">>), B(<<"b","[","a">>), B(<<"a","%","b">>), B(<<"b","%","f">>),
      B(<<"(","a">>), B(<<"a",")">>), B(<<"(","%","1",")">>), B(<<"a","%","1">>),
      B(<<"(","a",")","%","2">>), B(<<"(","a","*","(","b",")">>),
      B(<<"%","0">>) }

Patterns == SeqsUpTo(PatternAlphabet, MaxPatternLen) \cup PatternExamples
Subjects == SeqsUpTo(SubjectAlphabet, MaxSubjectLen)

\* Patterns with the longer subjects they are meant for.
MatchExamples ==
    { <<B(<<"(","%","d","+",")","-","(","%","d","+",")">>),
        B(<<"1","2","-","3","4">>)>>,
      <<B(<<"%","b","(",")">>),
        B(<<"(","a","(","b",")","c",")","r","e","s","t">>)>>,
      <<B(<<"%","b","a","b","a">>), B(<<"a","b","a","b">>)>>,
      <<B(<<"(","a","*","(",".",")",")","%","2">>), B(<<"a","a","b">>)>>,
      <<B(<<"(",".",")","%","1">>), B(<<"b","a","a">>)>>,
      <<B(<<"%","f","[","%","w","]","a">>), B(<<"b","a","a">>)>>,
      <<B(<<"a","%","f","[","^","a","]">>), B(<<"a","a","b">>)>>,
      <<B(<<"[","%","a","1","]","+">>), B(<<"a","1">>)>>,
      <<B(<<"%","D","+">>), B(<<"a","1">>)>>,
      <<B(<<"a","b">>), B(<<"a","a","b","a","b">>)>>,
      <<B(<<"a","b","a">>), B(<<"b","a","b","a","b","a">>)>>,
      <<B(<<"b","b">>), B(<<"a","b","a","b">>)>>,
      <<B(<<"%","b","a","a">>), B(<<"a","b","a","a">>)>>,
      <<B(<<"%","b","(",")","b">>), B(<<"(","(",")","b">>)>>,
      <<B(<<"(","%","b","(",")",")","r">>),
        B(<<"(","a","(","b",")","c",")","r","e","s","t">>)>> }

MatchInputs == (Patterns \X Subjects) \cup MatchExamples

\* The bytes that can lie at src_end: the NUL that ends a Janet string, or,
\* after a buffer, anything.
EndBytes == {0, Ord("a")}

\* Only matchbalance and the frontier case read the byte at src_end: for a
\* pattern without "%b" and "%f" one end byte stands for all.
EndBytesRead ==
    IF \E i \in 1..(Len(pat) - 1) :
          pat[i] = CHAR_ESC /\ pat[i + 1] \in {Ord("b"), Ord("f")}
    THEN EndBytes
    ELSE {0}

MatchInit ==
    /\ fn = "match"
    /\ \E x \in MatchInputs : pat = x[1] /\ text = x[2]
    /\ start \in (-MaxStart)..(MaxStart + 1)
    /\ subst = << >> /\ maxsplit = -1 /\ limit = -1
    /\ invert = "absent"
    /\ state = [i |-> 0, j |-> 0, lookup |-> << >>]
    /\ ki = 0 /\ kj = 0
    /\ result = -1
    /\ lastindex = 0
    /\ out = << >>
    /\ hits = << >>
    /\ ret = Running
    /\ pc = "entry"
    /\ ub = FALSE
    /\ ms = MatchIdle /\ s1 = 0 /\ tried = << >>
    /\ frames = << >> /\ call = [s |-> 0, p |-> 0]

\* posrelatI
posrelatI(pos, len) ==
    IF pos > 0 THEN pos
    ELSE IF pos = 0 THEN 1
    ELSE IF pos < -len THEN 1
    ELSE len + pos + 1

\* cfun_str_match: int anchor = (*p == '^'), and the pattern after it
anchor == PatAt(0) = Ord("^")
p_start == IF anchor THEN 1 ELSE 0

\* A loop that gives up one offset early: the end of the subject is not tried.
more_attempts_stops_early(s) == s + 1 < src_end /\ ~anchor

\* cfun_str_match: the condition of its do-while, without the s1++
more_attempts(s) == s < src_end /\ ~anchor

\* prepstate (level and the capture array are not initialised; neither is
\* read before reprepstate and start_capture have written it)
prepstate(eb) ==
    [level |-> 0, capture |-> << >>, matchdepth |-> MAXCCALLS, err |-> "",
     eb |-> eb, oob |-> FALSE, nopen |-> 0, nclose |-> 0, probes |-> {},
     returned |-> {}]

\* reprepstate
reprepstate(m) ==
    IF m.matchdepth # MAXCCALLS
    THEN [m EXCEPT !.level = 0, !.err = "matchdepth error"]
    ELSE [m EXCEPT !.level = 0]

\* A push_onecapture that returns an unfinished capture as an empty string.
push_onecapture_unfinished_ok(m, i, s, e) ==
    IF i >= m.level
    THEN IF i = 0 THEN WrapStr(Slice(text, s, e - s))
         ELSE Panic("invalid capture index")
    ELSE LET l == m.capture[i + 1].len
         IN  IF l = CAP_UNFINISHED THEN WrapStr(<< >>)
             ELSE IF l = CAP_POSITION THEN WrapInt(m.capture[i + 1].init + 1)
             ELSE WrapStr(Slice(text, m.capture[i + 1].init, l))

\* push_onecapture: the value pushed for capture i of a match of [s, e), or
\* the panic
push_onecapture(m, i, s, e) ==
    IF i >= m.level
    THEN IF i = 0 THEN WrapStr(Slice(text, s, e - s))
         ELSE Panic("invalid capture index")
    ELSE LET l == m.capture[i + 1].len
         IN  IF l = CAP_UNFINISHED THEN Panic("unfinished capture")
             ELSE IF l = CAP_POSITION THEN WrapInt(m.capture[i + 1].init + 1)
             ELSE WrapStr(Slice(text, m.capture[i + 1].init, l))

\* A push_captures that pushes the explicit captures only, never the whole
\* match.
push_captures_no_whole_match(m, s, e) ==
    LET vals == [i \in 1..m.level |-> push_onecapture(m, i - 1, s, e)]
        bad == {i \in 1..m.level : vals[i].kind = "error"}
    IN  IF bad = {} THEN WrapArr(vals)
        ELSE vals[CHOOSE i \in bad : \A k \in bad : i <= k]

\* push_captures: the array of captures, or the first panic of its loop
push_captures(m, s, e) ==
    LET nlevels == IF m.level = 0 THEN 1 ELSE m.level
        vals == [i \in 1..nlevels |-> push_onecapture(m, i - 1, s, e)]
        bad == {i \in 1..nlevels : vals[i].kind = "error"}
    IN  IF bad = {} THEN WrapArr(vals)
        ELSE vals[CHOOSE i \in bad : \A k \in bad : i <= k]

\* cfun_str_match up to its loop: the start position, the early return when
\* it lies after the end of the subject, the anchor and prepstate.
cfun_str_match_entry ==
    /\ pc = "entry" /\ fn = "match"
    /\ LET init == posrelatI(start, Len(text)) - 1
       IN  \/ /\ init > Len(text)
              /\ ret' = Nil
              /\ pc' = "done"
              /\ UNCHANGED <<ms, s1>>
           \/ /\ init <= Len(text)
              /\ \E eb \in EndBytesRead : ms' = prepstate(eb)
              /\ s1' = init
              /\ pc' = "attempt"
              /\ ret' = ret
    /\ UNCHANGED <<args, limit, state, ki, kj, result, lastindex, out, hits, ub,
                   tried, frames, call>>

\* cfun_str_match: the top-level match at s1 in the state m0 reprepstate
\* has left (or its panic)
top_match(m0) ==
    IF m0.err # "" THEN Ret(m0, NULL) ELSE match(m0, s1, p_start)

\* cfun_str_match once the top-level match at s1 has returned r
match_returns(r) ==
    /\ ms' = r.m
    /\ ub' = (ub \/ r.m.oob)
    /\ tried' = Append(tried, [s |-> s1, res |-> r.s])
    /\ \/ /\ r.m.err # ""
          /\ ret' = Panic(r.m.err)
          /\ pc' = "done"
          /\ s1' = s1
       \/ /\ Matched(r)
          /\ ret' = push_captures(r.m, s1, r.s)
          /\ pc' = "done"
          /\ s1' = s1
       \/ /\ Failed(r)
          /\ s1' = s1 + 1
          /\ IF more_attempts(s1)
             THEN pc' = "attempt" /\ ret' = ret
             ELSE pc' = "done" /\ ret' = Nil

\* cfun_str_match, one turn of its do-while loop: reprepstate, the top-level
\* match at s1, then either the captures are returned or
\* while (s1++ < ms.src_end && !anchor) decides.
cfun_str_match_attempt ==
    /\ pc = "attempt" /\ fn = "match"
    /\ match_returns(top_match(reprepstate(ms)))
    /\ UNCHANGED <<args, limit, state, ki, kj, result, lastindex, out, hits,
                   frames, call>>

MatchNext ==
    \/ cfun_str_match_entry
    \/ cfun_str_match_attempt

SpecMatch == MatchInit /\ [][MatchNext]_vars

(***************************************************************************)
(* string/match, call by call                                              *)
(*                                                                         *)
(* The same functions as a machine with its call stack: one step for the   *)
(* entry of match, one for each item of the pattern that match handles at  *)
(* its label init, one for each return.  frames holds one record for each  *)
(* call that has not returned: of match, and of the start_capture,         *)
(* end_capture, max_expand or min_expand (or the case '?' of match) that   *)
(* waits for a nested match.  call.s and call.p are the s and p of the     *)
(* running match; when a call returns, call.s is what it returns.          *)
(***************************************************************************)
\* n copies of x, one after the other.
Repeat(x, n) == [i \in 1..(n * Len(x)) |-> x[((i - 1) % Len(x)) + 1]]

\* Patterns that use up the budget of nested calls: each "()" and each "("
\* costs one call of match, each "a?" one where an "a" is read.  With the
\* top-level call, MAXCCALLS - 1 of them fit and MAXCCALLS do not.
\* And a pattern of one capture more than the capture array holds.
DeepExamples ==
    { <<Repeat(B(<<"(",")">>), MAXCCALLS - 1), << >> >>,
      <<Repeat(B(<<"(",")">>), MAXCCALLS), << >> >>,
      <<Repeat(B(<<"(",")">>), MAXCAPTURES + 1), << >> >>,
      <<Repeat(B(<<"(">>), MAXCCALLS - 1), << >> >>,
      <<Repeat(B(<<"(">>), MAXCCALLS), << >> >>,
      <<Repeat(B(<<"a","?">>), MAXCCALLS), Repeat(B(<<"a">>), MAXCCALLS)>>,
      <<Repeat(B(<<"a">>), MAXCCALLS + 1), Repeat(B(<<"a">>), MAXCCALLS + 1)>> }

CallInputs == (Patterns \X Subjects) \cup MatchExamples \cup DeepExamples

CallsInit ==
    /\ fn = "match"
    /\ \E x \in CallInputs : pat = x[1] /\ text = x[2]
    /\ start \in (IF Len(text) > MAXCCALLS THEN {1} ELSE {1, 2})
    /\ subst = << >> /\ maxsplit = -1 /\ limit = -1
    /\ invert = "absent"
    /\ state = [i |-> 0, j |-> 0, lookup |-> << >>]
    /\ ki = 0 /\ kj = 0
    /\ result = -1
    /\ lastindex = 0
    /\ out = << >>
    /\ hits = << >>
    /\ ret = Running
    /\ pc = "entry"
    /\ ub = FALSE
    /\ ms = MatchIdle /\ s1 = 0 /\ tried = << >>
    /\ frames = << >> /\ call = [s |-> 0, p |-> 0]

\* A call that waits for a nested match: the function, and its locals
Frame(f, s, p, ep, i) == [fn |-> f, s |-> s, p |-> p, ep |-> ep, i |-> i]
NoFrame == Frame("", 0, 0, 0, 0)

\* What a piece of code does next: it goes to the label init of the running
\* match with s and p, it returns s, it calls match(ms, s, p) from the frame
\* given, or it panics.
Goto(m, s, p) == [kind |-> "goto", m |-> m, s |-> s, p |-> p, frame |-> NoFrame]
Return(m, s) == [kind |-> "return", m |-> m, s |-> s, p |-> 0, frame |-> NoFrame]
Call(m, f, s, p) == [kind |-> "call", m |-> m, s |-> s, p |-> p, frame |-> f]
Throw(m, msg) ==
    [kind |-> "panic", m |-> [m EXCEPT !.err = msg], s |-> NULL, p |-> 0,
     frame |-> NoFrame]

\* start_capture up to its call of match
start_capture_call(m, s, p, what) ==
    IF m.level >= MAXCAPTURES THEN Throw(m, "too many captures")
    ELSE Call([m EXCEPT
                 !.capture = IF m.level < Len(@)
                             THEN [@ EXCEPT ![m.level + 1] =
                                               [init |-> s, len |-> what]]
                             ELSE Append(@, [init |-> s, len |-> what]),
                 !.level = (m.level + 1) % 256,
                 !.nopen = @ + 1],
              Frame("start_capture", s, p, 0, 0), s, p)

\* end_capture up to its call of match, for l = capture_to_close(ms)
end_capture_call(m, s, p, l) ==
    IF l = -1 THEN Throw(m, "invalid pattern capture")
    ELSE Call([m EXCEPT !.capture[l + 1].len = s - m.capture[l + 1].init,
                        !.nclose = @ + 1],
              Frame("end_capture", s, p, 0, l), s, p)

\* A match that calls itself for the rest of the pattern after a "%b" or a
\* back reference has matched.
item_goto_recurses(r, p) ==
    IF r.m.err # "" THEN Throw(r.m, r.m.err)
    ELSE IF r.s # NULL THEN Call(r.m, Frame("start_capture", r.s, p, 0, 0), r.s, p)
    ELSE Return(r.m, NULL)

\* match after matchbalance or match_capture has returned r:
\* if (s != NULL) { p += ..; goto init; } break;
item_goto(r, p) ==
    IF r.m.err # "" THEN Throw(r.m, r.m.err)
    ELSE IF r.s # NULL THEN Goto(r.m, r.s, p)
    ELSE Return(r.m, NULL)

\* A frontier case that does not look at the previous byte.
item_frontier_ignores_previous(m, s, p, ep) ==
    IF ep < 0 THEN Throw(m, classend_error(ep))
    ELSE IF matchbracketclass(SubjAt(m, s), p, ep - 1)
    THEN Goto(Touch(m, s), s, ep)
    ELSE Return(Touch(m, s), NULL)

\* match, case 'f'
item_frontier(m, s, p, ep) ==
    IF ep < 0 THEN Throw(m, classend_error(ep))
    ELSE IF matchbracketclass(IF s = 0 THEN 0 ELSE text[(s - 1) + 1], p, ep - 1)
    THEN Return(m, NULL)
    ELSE IF matchbracketclass(SubjAt(m, s), p, ep - 1)
    THEN Goto(Touch(m, s), s, ep)
    ELSE Return(Touch(m, s), NULL)

\* match, the default case
item_dflt(m, s, p, ep) ==
    IF ep < 0 THEN Throw(m, classend_error(ep))
    ELSE IF ~singlematch(s, p, ep)
    THEN IF PatAt(ep) \in {Ord("*"), Ord("?"), Ord("-")}
         THEN Goto(m, s, ep + 1)
         ELSE Return(m, NULL)
    ELSE IF PatAt(ep) = Ord("?")
    THEN Call(m, Frame("optional", s, p, ep, 0), s + 1, ep + 1)
    ELSE IF PatAt(ep) = Ord("+")
    THEN Call(m, Frame("max_expand", s + 1, p, ep, max_run(s + 1, p, ep, 0)),
              s + 1 + max_run(s + 1, p, ep, 0), ep + 1)
    ELSE IF PatAt(ep) = Ord("*")
    THEN Call(m, Frame("max_expand", s, p, ep, max_run(s, p, ep, 0)),
              s + max_run(s, p, ep, 0), ep + 1)
    ELSE IF PatAt(ep) = Ord("-")
    THEN Call(m, Frame("min_expand", s, p, ep, 0), s, ep + 1)
    ELSE Goto(m, s + 1, ep)

\* match at its label init, up to the next goto init, call, return or panic
item(m, s, p) ==
    IF p = p_end THEN Return(m, s)
    ELSE IF PatAt(p) = Ord("(")
    THEN IF PatAt(p + 1) = Ord(")")
         THEN start_capture_call(m, s, p + 2, CAP_POSITION)
         ELSE start_capture_call(m, s, p + 1, CAP_UNFINISHED)
    ELSE IF PatAt(p) = Ord(")")
    THEN end_capture_call(m, s, p + 1, capture_to_close(m))
    ELSE IF PatAt(p) = Ord("$") /\ p + 1 = p_end
    THEN Return(m, IF s = src_end THEN s ELSE NULL)
    ELSE IF PatAt(p) = CHAR_ESC /\ PatAt(p + 1) = Ord("b")
    THEN item_goto(matchbalance(m, s, p + 2), p + 4)
    ELSE IF PatAt(p) = CHAR_ESC /\ PatAt(p + 1) = Ord("f")
    THEN IF PatAt(p + 2) # Ord("[")
         THEN Throw(m, "missing '[' after '%%f' in pattern")
         ELSE item_frontier(m, s, p + 2, classend(p + 2))
    ELSE IF PatAt(p) = CHAR_ESC /\ isdigit(PatAt(p + 1))
    THEN item_goto(match_capture(m, s, PatAt(p + 1)), p + 2)
    ELSE item_dflt(m, s, p, classend(p))

\* A max_expand that tries the same count again after a failed remainder.
resume_keeps_count(m, f, res) ==
    CASE f.fn = "match" ->
           \* ms->matchdepth++; return s;
           Return([m EXCEPT !.matchdepth = @ + 1], res)
      [] f.fn = "start_capture" ->
           \* if ((res = match(ms, s, p)) == NULL) ms->level--;
           IF res = NULL
           THEN Return([m EXCEPT !.level = (@ + 255) % 256], NULL)
           ELSE Return(m, res)
      [] f.fn = "end_capture" ->
           \* if ((res = match(ms, s, p)) == NULL) capture[l].len = CAP_UNFINISHED;
           IF res = NULL
           THEN Return([m EXCEPT !.capture[f.i + 1].len = CAP_UNFINISHED], NULL)
           ELSE Return(m, res)
      [] f.fn = "optional" ->
           \* if (res != NULL) s = res; else { p = ep + 1; goto init; }
           IF res # NULL THEN Return(m, res) ELSE Goto(m, f.s, f.ep + 1)
      [] f.fn = "max_expand" ->
           \* if (res) return res; i--; while (i >= 0) ..
           IF res # NULL THEN Return(m, res)
           ELSE IF f.i - 1 >= 0
           THEN Call(m, f, f.s + f.i, f.ep + 1)
           ELSE Return(m, NULL)
      [] f.fn = "min_expand" ->
           \* if (res != NULL) return res; else if (singlematch(..)) s++; else return NULL;
           IF res # NULL THEN Return(m, res)
           ELSE IF singlematch(f.s, f.p, f.ep)
           THEN Call(m, [f EXCEPT !.s = @ + 1], f.s + 1, f.ep + 1)
           ELSE Return(m, NULL)

\* The call f once the match it waited for has returned res
resume(m, f, res) ==
    CASE f.fn = "match" ->
           \* ms->matchdepth++; return s;
           Return([m EXCEPT !.matchdepth = @ + 1], res)
      [] f.fn = "start_capture" ->
           \* if ((res = match(ms, s, p)) == NULL) ms->level--;
           IF res = NULL
           THEN Return([m EXCEPT !.level = (@ + 255) % 256], NULL)
           ELSE Return(m, res)
      [] f.fn = "end_capture" ->
           \* if ((res = match(ms, s, p)) == NULL) capture[l].len = CAP_UNFINISHED;
           IF res = NULL
           THEN Return([m EXCEPT !.capture[f.i + 1].len = CAP_UNFINISHED], NULL)
           ELSE Return(m, res)
      [] f.fn = "optional" ->
           \* if (res != NULL) s = res; else { p = ep + 1; goto init; }
           IF res # NULL THEN Return(m, res) ELSE Goto(m, f.s, f.ep + 1)
      [] f.fn = "max_expand" ->
           \* if (res) return res; i--; while (i >= 0) ..
           IF res # NULL THEN Return(m, res)
           ELSE IF f.i - 1 >= 0
           THEN Call(m, [f EXCEPT !.i = @ - 1], f.s + f.i - 1, f.ep + 1)
           ELSE Return(m, NULL)
      [] f.fn = "min_expand" ->
           \* if (res != NULL) return res; else if (singlematch(..)) s++; else return NULL;
           IF res # NULL THEN Return(m, res)
           ELSE IF singlematch(f.s, f.p, f.ep)
           THEN Call(m, [f EXCEPT !.s = @ + 1], f.s + 1, f.ep + 1)
           ELSE Return(m, NULL)

callvars == <<args, limit, state, ki, kj, result, lastindex, out, hits>>

\* The step that does o, with the calls below that wait
step(o, below) ==
    \/ /\ o.kind = "goto"
       /\ ms' = o.m
       /\ call' = [s |-> o.s, p |-> o.p]
       /\ frames' = below
       /\ pc' = "init"
       /\ UNCHANGED <<ret, ub, s1, tried>>
    \/ /\ o.kind = "call"
       /\ ms' = o.m
       /\ call' = [s |-> o.s, p |-> o.p]
       /\ frames' = Append(below, o.frame)
       /\ pc' = "call"
       /\ UNCHANGED <<ret, ub, s1, tried>>
    \/ /\ o.kind = "return"
       /\ ms' = o.m
       /\ call' = [call EXCEPT !.s = o.s]
       /\ frames' = below
       /\ pc' = "return"
       /\ UNCHANGED <<ret, ub, s1, tried>>
    \/ /\ o.kind = "panic"
       /\ match_returns(Ret(o.m, NULL))
       /\ UNCHANGED <<frames, call>>

\* cfun_str_match, the head of its do-while loop: reprepstate, then the
\* top-level call match(&ms, s1, p)
cfun_str_match_reprepstate ==
    /\ pc = "attempt" /\ fn = "match"
    /\ IF reprepstate(ms).err # ""
       THEN match_returns(Ret(reprepstate(ms), NULL)) /\ UNCHANGED <<frames, call>>
       ELSE /\ ms' = reprepstate(ms)
            /\ call' = [s |-> s1, p |-> p_start]
            /\ frames' = << >>
            /\ pc' = "call"
            /\ UNCHANGED <<ret, ub, s1, tried>>
    /\ UNCHANGED callvars

\* match, its entry: if (ms->matchdepth-- == 0) janet_panic(..)
match_enter ==
    /\ pc = "call" /\ fn = "match"
    /\ \/ /\ ms.matchdepth = 0
          /\ match_returns(Raise([ms EXCEPT !.matchdepth = @ - 1],
                                 "pattern too complex"))
          /\ UNCHANGED <<frames, call>>
       \/ /\ ms.matchdepth # 0
          /\ ms' = [ms EXCEPT !.matchdepth = @ - 1]
          /\ frames' = Append(frames, Frame("match", call.s, call.p, 0, 0))
          /\ pc' = "init"
          /\ UNCHANGED <<call, ret, ub, s1, tried>>
    /\ UNCHANGED callvars

\* match, from its label init to the next goto init, call, return or panic
match_item ==
    /\ pc = "init" /\ fn = "match"
    /\ step(item(ms, call.s, call.p), frames)
    /\ UNCHANGED callvars

\* The return of match to the call that waits for it, or the return of that
\* call to the match that made it
match_return ==
    /\ pc = "return" /\ fn = "match" /\ frames # << >>
    /\ step(resume(ms, frames[Len(frames)], call.s),
            SubSeq(frames, 1, Len(frames) - 1))
    /\ UNCHANGED callvars

\* cfun_str_match once the top-level match has returned
cfun_str_match_result ==
    /\ pc = "return" /\ fn = "match" /\ frames = << >>
    /\ match_returns(Ret(ms, call.s))
    /\ UNCHANGED <<frames, call>>
    /\ UNCHANGED callvars

CallsNext ==
    \/ cfun_str_match_entry
    \/ cfun_str_match_reprepstate
    \/ match_enter
    \/ match_item
    \/ match_return
    \/ cfun_str_match_result

SpecCalls == CallsInit /\ [][CallsNext]_vars

\* The calls that start at the first byte of the subject, which make an
\* attempt at every offset of the subject until one succeeds.
CallsLiveInit == CallsInit /\ start = 1

\* The call runs on one thread that nothing suspends: whenever a step of the
\* call is possible, one is eventually taken.
SpecCallsLive == CallsLiveInit /\ [][CallsNext]_vars /\ WF_vars(CallsNext)

(***************************************************************************)
(* Claims about the exact-match engine                                     *)
(***************************************************************************)
\* p occurs in t at offset o: t[o .. o + len(p)) = p bytewise.
Occurs(p, t, o) ==
    o >= 0 /\ o + Len(p) <= Len(t) /\ Slice(t, o, Len(p)) = p

\* The offsets at or after k at which p occurs in t.
Occurrences(p, t, k) == {o \in k..Len(t) : Occurs(p, t, o)}

Range(f) == {f[x] : x \in DOMAIN f}

StrictlyIncreasing(f) ==
    \A x, y \in DOMAIN f : x < y => f[x] < f[y]

Min(S) == CHOOSE x \in S : \A y \in S : x <= y

\* C1: for all patterns P, texts T and start offsets k >= 0, find(P, T, k)
\* returns an offset o only if o >= k, P occurs at o and at no offset in
\* k .. o - 1, and it returns not-found exactly when P occurs at no offset
\* at or after k.
C1_FindLeftmost ==
    (fn = "find" /\ pc = "done" /\ start >= 0) =>
        /\ ret.kind \in {"int", "nil"}
        /\ ret.kind = "int" =>
              /\ ret.val >= start
              /\ Occurs(pat, text, ret.val)
              /\ \A o \in start..(ret.val - 1) : ~Occurs(pat, text, o)
        /\ ret.kind = "nil" <=> Occurrences(pat, text, start) = {}

RECURSIVE Greedy(_, _, _)
Greedy(p, t, k) ==
    IF Occurrences(p, t, k) = {} THEN << >>
    ELSE LET o == Min(Occurrences(p, t, k))
         IN  <<o>> \o Greedy(p, t, o + Len(p))

\* t from offset last on, with the occurrences of p at the offsets hs
\* replaced by s and every other byte kept.
RECURSIVE Substituted(_, _, _, _, _)
Substituted(t, p, s, hs, last) ==
    IF hs = << >> THEN Slice(t, last, Len(t) - last)
    ELSE Slice(t, last, hs[1] - last) \o s
            \o Substituted(t, p, s, Tail(hs), hs[1] + Len(p))

\* C3: replace_all(P, S, T, k) replaces exactly the occurrences of P chosen
\* greedily left to right from k without overlap, copies every other byte
\* of T in order, and the result has len(T) - n*len(P) + n*len(S) bytes for
\* n replaced occurrences.  (Greedy choice needs a P that is not empty.)
C3_ReplaceAllGreedy ==
    (fn = "replaceall" /\ pc = "done" /\ start >= 0 /\ Len(pat) >= 1) =>
        /\ hits = Greedy(pat, text, start)
        /\ \A x \in 1..(Len(hits) - 1) : hits[x + 1] >= hits[x] + Len(pat)
        /\ ret = WrapStr(Substituted(text, pat, subst, hits, 0))
        /\ Len(ret.val) = Len(text) - Len(hits) * Len(pat) + Len(hits) * Len(subst)

\* replace_all has replaced two occurrences and passed over one that
\* overlaps a replaced one.
C3_Witness ==
    /\ fn = "replaceall" /\ pc = "done" /\ Len(hits) >= 2
    /\ Occurrences(pat, text, start) \ Range(hits) # {}

\* The hits replace_all replaces: kmp_next, then kmp_seti to the hit's end.
RECURSIVE replaceall_hits(_, _, _)
replaceall_hits(t, p, st) ==
    LET r == kmp_next(t, p, st)
    IN  IF r.result >= 0
        THEN <<r.result>> \o replaceall_hits(t, p, kmp_seti(r.state, r.result + Len(p)))
        ELSE << >>

\* C4: with no limit, the hits split(D, T) cuts at are the occurrences
\* replace_all(D, _, T) replaces: after a hit at o the next hit split uses
\* starts at or after o + len(D).
C4_SplitResumesLikeReplaceAll ==
    (fn = "split" /\ pc = "done" /\ start >= 0 /\ maxsplit < 0 /\ Len(pat) >= 1) =>
        /\ hits = replaceall_hits(text, pat, [kmp_init(pat) EXCEPT !.i = start])
        /\ \A x \in 1..(Len(hits) - 1) : hits[x + 1] >= hits[x] + Len(pat)

\* The segments joined with d between consecutive segments.
RECURSIVE Joined(_, _)
Joined(segs, d) ==
    IF Len(segs) = 1 THEN segs[1]
    ELSE segs[1] \o d \o Joined(Tail(segs), d)

\* C5: for a delimiter D that is not empty (start 0, no limit), split(D, T)
\* returns segments that are sub-ranges of T (no emission has a negative
\* length), none containing D, that joined with D give back T; when D does
\* not occur the result is the single element T.
C5_SplitSegments ==
    (fn = "split" /\ pc = "done" /\ start = 0 /\ maxsplit < 0 /\ Len(pat) >= 1) =>
        /\ ~ub
        /\ ret.kind = "array"
        /\ Len(ret.val) >= 1
        /\ \A x \in DOMAIN ret.val : Occurrences(pat, ret.val[x], 0) = {}
        /\ Joined(ret.val, pat) = text
        /\ Occurrences(pat, text, 0) = {} => ret.val = <<text>>

(***************************************************************************)
(* Claims about the pattern-match engine                                   *)
(***************************************************************************)
\* The pattern begins with the anchor.
Anchored == Len(pat) >= 1 /\ pat[1] = Ord("^")

\* The pattern position of the first item.
FirstItem == IF Anchored THEN 1 ELSE 0

\* The subject offset a start argument stands for: start - 1 when start is
\* positive, 0 when it is 0 or lies before the beginning of the subject, and
\* len(text) + start, counted back from the end, otherwise.
FirstOffset ==
    IF start > 0 THEN start - 1
    ELSE IF start = 0 \/ start < -Len(text) THEN 0
    ELSE Len(text) + start

\* The offsets of a call whose first one is first, if every attempt fails.
Attempted(first) ==
    IF first > Len(text) THEN {}
    ELSE IF Anchored THEN {first}
    ELSE first..Len(text)

\* One top-level attempt at offset o on its own, with no capture recorded.
Attempt(o) == match(reprepstate(prepstate(ms.eb)), o, FirstItem)

Fails(o) == Failed(Attempt(o))
Succeeds(o) == Matched(Attempt(o))

\* The call returned what the attempt r at offset o gives.
Returns(r, o) ==
    tried[Len(tried)].res = r.s /\ ret = push_captures(r.m, o, r.s)

\* string/match attempts the offsets first, first + 1, .. len(text) in that
\* order, only first under an anchor, each with no capture recorded; it
\* returns the captures of the first attempt that succeeds, and nil exactly
\* when every attempted offset fails.
AttemptsFrom(first) ==
    fn = "match" =>
        /\ \A k \in DOMAIN tried :
              tried[k].s = first + k - 1 /\ tried[k].s <= Len(text)
        /\ Anchored => Len(tried) <= 1
        /\ pc = "done" =>
              /\ ret = Nil <=> \A o \in Attempted(first) : Fails(o)
              /\ (ret # Nil /\ ms.err = "") =>
                    /\ tried # << >>
                    /\ Succeeds(tried[Len(tried)].s)
                    /\ Returns(Attempt(tried[Len(tried)].s), tried[Len(tried)].s)
                    /\ \A o \in Attempted(first) :
                          o < tried[Len(tried)].s => Fails(o)

\* C6, as stated: the first offset attempted is start - 1.
C6_AttemptsFromStartMinusOne == AttemptsFrom(start - 1)

\* C6: match(pattern, text, start) attempts the subject offsets init,
\* init + 1, .. len(text) in that order, where init is the offset start
\* stands for (start - 1 for a positive start, 0 for start 0 or a negative
\* start before the beginning, len(text) + start for another negative
\* start), and none when init > len(text); each attempt begins with no
\* capture recorded; the result is that of the first attempt that succeeds,
\* so the match begins at the smallest offset >= init at which the pattern
\* matches; under '^' only init is attempted; nil is returned exactly when
\* every attempted offset fails.
C6_AttemptOrder == AttemptsFrom(FirstOffset)

\* A match found at the third offset attempted, for a start that is not
\* positive.
C6_Witness ==
    /\ fn = "match" /\ pc = "done" /\ ret.kind = "array"
    /\ Len(tried) >= 3 /\ start <= 0
Quantifiers == {Ord("*"), Ord("+"), Ord("?"), Ord("-")}

\* The position after the item at p, for an item that opens or closes no
\* capture and is well formed; -1 for one that is not well formed.
ItemEnd(p) ==
    IF PatAt(p) = Ord("$") /\ p + 1 = p_end THEN p + 1
    ELSE IF PatAt(p) = CHAR_ESC /\ PatAt(p + 1) = Ord("b")
    THEN IF p + 2 >= p_end - 1 THEN -1 ELSE p + 4
    ELSE IF PatAt(p) = CHAR_ESC /\ PatAt(p + 1) = Ord("f")
    THEN IF PatAt(p + 2) # Ord("[") \/ classend(p + 2) < 0 THEN -1
         ELSE classend(p + 2)
    ELSE IF PatAt(p) = CHAR_ESC /\ isdigit(PatAt(p + 1)) THEN p + 2
    ELSE IF classend(p) < 0 THEN -1
    ELSE IF PatAt(classend(p)) \in Quantifiers THEN classend(p) + 1
    ELSE classend(p)

\* The captures the pattern opens from position p on, in the order of their
\* '(': "position" for "()", "span" for any other.
RECURSIVE CaptureKinds(_)
CaptureKinds(p) ==
    IF p >= p_end THEN << >>
    ELSE IF PatAt(p) = Ord("(")
    THEN IF PatAt(p + 1) = Ord(")")
         THEN <<"position">> \o CaptureKinds(p + 2)
         ELSE <<"span">> \o CaptureKinds(p + 1)
    ELSE IF PatAt(p) = Ord(")") THEN CaptureKinds(p + 1)
    ELSE IF ItemEnd(p) < 0 THEN << >>
    ELSE CaptureKinds(ItemEnd(p))

\* C7: on a successful match the result holds one element per capture the
\* pattern opened, in the order of their '(': the 1-based offset at which it
\* was opened for a position capture, the bytes text[init .. init + len)
\* recorded for it for a span capture; a pattern that opens no capture gives
\* the whole matched span as the only element.
C7_ResultExtraction ==
    (fn = "match" /\ pc = "done" /\ ret.kind = "array") =>
        LET a == tried[Len(tried)]
            kinds == CaptureKinds(FirstItem)
        IN  /\ a.res # NULL /\ a.s <= a.res /\ a.res <= Len(text)
            /\ ms.level = Len(kinds)
            /\ kinds = << >> =>
                  ret.val = <<WrapStr(Slice(text, a.s, a.res - a.s))>>
            /\ kinds # << >> =>
                  /\ Len(ret.val) = Len(kinds)
                  /\ \A i \in DOMAIN kinds :
                        LET c == ms.capture[i]
                        IN  /\ a.s <= c.init /\ c.init <= a.res
                            /\ i > 1 => ms.capture[i - 1].init <= c.init
                            /\ kinds[i] = "position" =>
                                  ret.val[i] = WrapInt(c.init + 1)
                            /\ kinds[i] = "span" =>
                                  /\ c.len >= 0 /\ c.init + c.len <= a.res
                                  /\ ret.val[i] = WrapStr(Slice(text, c.init, c.len))
            /\ (pat = B(<<"(","%","d","+",")","-","(","%","d","+",")">>)
                  /\ text = B(<<"1","2","-","3","4">>) /\ start = 1) =>
                  ret.val = <<WrapStr(B(<<"1","2">>)), WrapStr(B(<<"3","4">>))>>

\* A match has returned a span capture and a position capture.
C7_Witness ==
    /\ fn = "match" /\ pc = "done" /\ ret.kind = "array"
    /\ \E i, j \in DOMAIN ret.val :
          ret.val[i].kind = "string" /\ ret.val[j].kind = "int"

\* C8: whenever a call of match has returned failure, level and matchdepth
\* have the values they had when it was entered, the captures opened during
\* the call are discarded and the captures it closed are unfinished again:
\* the captures below the level at entry are what they were.
C8_FailedProbeLeavesNoResidue ==
    \A pr \in ms.probes :
        /\ pr.level1 = pr.level0
        /\ pr.depth1 = pr.depth0
        /\ pr.capture1 = pr.capture0

\* One failed call closed a capture that was open when it was entered, and
\* another one opened a capture.
C8_Witness ==
    /\ \E pr \in ms.probes :
          pr.level0 >= 1 /\ pr.opened = 0 /\ pr.closed >= 1
    /\ \E pr \in ms.probes : pr.opened >= 1

\* The pattern is malformed from position p on, caps being the captures
\* opened before p ("open", "closed" or "position"): a lone '%' at the end,
\* a '[' without its ']', "%b" without two bytes after it, "%f" without a
\* '[', a back reference to a capture that does not exist or is not closed,
\* a ')' with no open capture, a capture left open at the end.
RECURSIVE MalformedFrom(_, _)
MalformedFrom(p, caps) ==
    LET open == {i \in DOMAIN caps : caps[i] = "open"}
    IN  IF p >= p_end THEN open # {}
        ELSE IF PatAt(p) = Ord("(")
        THEN IF PatAt(p + 1) = Ord(")")
             THEN MalformedFrom(p + 2, Append(caps, "position"))
             ELSE MalformedFrom(p + 1, Append(caps, "open"))
        ELSE IF PatAt(p) = Ord(")")
        THEN IF open = {} THEN TRUE
             ELSE LET l == CHOOSE i \in open : \A k \in open : k <= i
                  IN  MalformedFrom(p + 1, [caps EXCEPT ![l] = "closed"])
        ELSE IF ItemEnd(p) < 0 THEN TRUE
        ELSE IF PatAt(p) = CHAR_ESC /\ isdigit(PatAt(p + 1))
        THEN LET k == PatAt(p + 1) - Ord("1")
             IN  \/ k < 0 \/ k >= Len(caps)
                 \/ caps[k + 1] = "open"
                 \/ MalformedFrom(p + 2, caps)
        ELSE MalformedFrom(ItemEnd(p), caps)

Malformed == MalformedFrom(FirstItem, << >>)

\* The first item of the pattern is malformed by itself.
FirstItemMalformed ==
    /\ FirstItem < p_end
    /\ PatAt(FirstItem) # Ord("(")
    /\ \/ PatAt(FirstItem) = Ord(")")
       \/ ItemEnd(FirstItem) < 0
       \/ PatAt(FirstItem) = CHAR_ESC /\ isdigit(PatAt(FirstItem + 1))

\* C9, as stated: a malformed pattern always ends in a pattern error.
C9_MalformedAlwaysError ==
    (fn = "match" /\ pc = "done" /\ Malformed) => ret.kind = "error"

\* C9: a call with a malformed pattern never returns captures: it ends in
\* a pattern error or in nil, in nil only when every attempt it made has
\* failed, and in a pattern error at the first attempt when the first item
\* of the pattern is the malformed one and the start offset is not after
\* the end of the subject.
C9_MalformedNeverCaptures ==
    (fn = "match" /\ pc = "done" /\ Malformed) =>
        /\ ret.kind \in {"error", "nil"}
        /\ ret.kind = "nil" => \A k \in DOMAIN tried : tried[k].res = NULL
        /\ (FirstItemMalformed /\ FirstOffset <= Len(text)) =>
              ret.kind = "error" /\ Len(tried) = 1

\* A malformed pattern has been attempted at every offset and the call has
\* returned nil.
C9_Witness ==
    /\ fn = "match" /\ pc = "done" /\ Malformed
    /\ ret = Nil /\ Len(tried) >= 2

\* C10, as stated: the pattern "%b" or "%f", against any subject and with
\* any start offset, ends in a pattern error, never in nil.
C10_BareBalanceFrontierAlwaysError ==
    (fn = "match" /\ pc = "done" /\ pat \in {B(<<"%","b">>), B(<<"%","f">>)}) =>
        ret.kind = "error"

\* C10: the pattern "%b" or "%f" ends in its pattern error at the first
\* attempt for every subject and every start offset that is not after the
\* end of the subject; for a start offset after the end the call returns
\* nil and the pattern is not looked at.
C10_BareBalanceFrontier ==
    (fn = "match" /\ pc = "done" /\ pat \in {B(<<"%","b">>), B(<<"%","f">>)}) =>
        IF FirstOffset <= Len(text)
        THEN /\ Len(tried) = 1
             /\ ret = IF pat = B(<<"%","b">>)
                      THEN Panic("malformed pattern (missing arguments to '%%b')")
                      ELSE Panic("missing '[' after '%%f' in pattern")
        ELSE ret = Nil /\ tried = << >>

\* "%b" and "%f" have each ended in a pattern error.
C10_Witness ==
    /\ fn = "match" /\ pc = "done" /\ ret.kind = "error"
    /\ pat \in {B(<<"%","b">>), B(<<"%","f">>)}
    /\ FirstOffset = Len(text)

(***************************************************************************)
(* Further claims about the exact-match engine                             *)
(***************************************************************************)
\* C11: string/find-all does not count overlapping instances: any two
\* offsets it returns differ by at least len(pattern), so that a byte of the
\* text belongs to at most one reported occurrence.
C11_FindAllNoOverlap ==
    (fn = "findall" /\ pc = "done" /\ start >= 0 /\ Len(pat) >= 1
        /\ ret.kind = "array") =>
        \A x, y \in DOMAIN ret.val :
            x < y => ret.val[y] - ret.val[x] >= Len(pat)

\* cfun_string_split as a whole, from the cursor st on: the segments pushed,
\* and whether every slice had a length that is not negative.
RECURSIVE split_loop(_, _, _, _, _)
split_loop(t, p, st, last, lim) ==
    LET r == kmp_next(t, p, st)
    IN  IF r.result >= 0 /\ lim # 0
        THEN IF r.result - last < 0
             THEN [segs |-> << >>, defined |-> FALSE]
             ELSE LET rest == split_loop(t, p, r.state, r.result + Len(p), lim - 1)
                  IN  [segs |-> <<Slice(t, last, r.result - last)>> \o rest.segs,
                       defined |-> rest.defined]
        ELSE [segs |-> <<Slice(t, last, Len(t) - last)>>, defined |-> TRUE]

\* The split of the same delimiter and text from the same start, no limit.
Unlimited == split_loop(text, pat, [kmp_init(pat) EXCEPT !.i = start], 0, -1)

\* The offset after the first k segments of segs and their delimiters.
RECURSIVE CutEnd(_, _)
CutEnd(segs, k) ==
    IF k = 0 THEN 0 ELSE CutEnd(segs, k - 1) + Len(segs[k]) + Len(pat)

\* C12: split with a limit n >= 0 makes at most n cuts: at most n + 1
\* segments, the first min(n, number of hits) of them those of the split
\* without a limit, the last one all of the text after the last cut; n = 0
\* gives the whole text as one segment.
C12_SplitLimit ==
    (fn = "split" /\ pc = "done" /\ start >= 0 /\ maxsplit >= 0
        /\ Len(pat) >= 1) =>
        /\ ret.kind = "array"
        /\ Len(ret.val) <= maxsplit + 1
        /\ maxsplit = 0 => ret.val = <<text>>
        /\ Unlimited.defined =>
              LET k == Min({maxsplit, Len(Unlimited.segs) - 1})
              IN  /\ Len(ret.val) = k + 1
                  /\ SubSeq(ret.val, 1, k) = SubSeq(Unlimited.segs, 1, k)
                  /\ ret.val[k + 1] =
                        Slice(text, CutEnd(ret.val, k),
                              Len(text) - CutEnd(ret.val, k))

\* C13: replace(P, S, T, k) returns T[0 .. o) ++ S ++ T[o + len(P) .. len(T))
\* for the first occurrence o of P at or after k, one occurrence replaced;
\* when P does not occur at or after k, replace and replace_all return the
\* bytes of T.  (P is not empty: what an empty pattern does is left open.)
C13_ReplaceFirst ==
    (fn \in {"replace", "replaceall"} /\ pc = "done" /\ start >= 0
        /\ Len(pat) >= 1) =>
        IF Occurrences(pat, text, start) = {}
        THEN ret = WrapStr(text) /\ hits = << >>
        ELSE fn = "replace" =>
               LET o == Min(Occurrences(pat, text, start))
               IN  /\ hits = <<o>>
                   /\ ret.kind = "string"
                   /\ Len(ret.val) = Len(text) - Len(pat) + Len(subst)
                   /\ SubSeq(ret.val, 1, o) = SubSeq(text, 1, o)
                   /\ SubSeq(ret.val, o + 1, o + Len(subst)) = subst
                   /\ SubSeq(ret.val, o + Len(subst) + 1, Len(ret.val))
                         = SubSeq(text, o + Len(pat) + 1, Len(text))

\* replace has replaced the first of two occurrences after the start, past
\* an occurrence before the start, by a substitute of another length.
C13_Witness ==
    /\ fn = "replace" /\ pc = "done" /\ start > 0 /\ Len(hits) = 1
    /\ Cardinality(Occurrences(pat, text, start)) >= 2
    /\ Occurrences(pat, text, 0) # Occurrences(pat, text, start)
    /\ Len(subst) # Len(pat)

(***************************************************************************)
(* Claims about the budget of nested calls                                 *)
(***************************************************************************)
\* C14: every call of match that returns, with a position or with NULL,
\* leaves matchdepth as it found it; so each top-level attempt starts with
\* matchdepth = MAXCCALLS, and reprepstate never raises "matchdepth error".
C14_MatchdepthRestored ==
    /\ \A c \in ms.returned : c.depth1 = c.depth0
    /\ pc = "attempt" => ms.matchdepth = MAXCCALLS
    /\ ms.err # "matchdepth error"
    /\ ret # Panic("matchdepth error")

\* A second or later attempt has matched: calls of match, nested ones among
\* them, have returned NULL in the attempts before it and a position in it.
C14_Witness ==
    /\ pc = "done" /\ Len(tried) >= 2
    /\ tried[Len(tried)].res # NULL
    /\ ms.err = ""
    /\ ms.probes # {}
    /\ \E pr \in ms.probes : pr.depth0 < MAXCCALLS
    /\ \E c \in ms.returned : c.depth0 < MAXCCALLS - 1

\* The calls of match that have not returned.
Active == Cardinality({i \in 1..Len(frames) : frames[i].fn = "match"})

\* The MatchState is in use: between prepstate and the return or the panic
\* of cfun_str_match.
MatchStateLive ==
    \/ pc \in {"attempt", "call", "init", "return"}
    \/ pc = "done" /\ tried # << >> /\ ms.err = ""

\* The item at call.p is one that match handles and then goes on from, in
\* the same call: a single-byte class without a suffix that matches the byte
\* at call.s, a "%b" that finds its balanced span, a "%f" whose frontier is
\* at call.s, or a back reference whose capture is found at call.s.
TailItem ==
    LET s == call.s
        p == call.p
    IN  /\ p < p_end
        /\ PatAt(p) \notin {Ord("("), Ord(")")}
        /\ ~(PatAt(p) = Ord("$") /\ p + 1 = p_end)
        /\ ItemEnd(p) >= 0
        /\ IF PatAt(p) = CHAR_ESC /\ PatAt(p + 1) = Ord("b")
           THEN Matched(matchbalance(ms, s, p + 2))
           ELSE IF PatAt(p) = CHAR_ESC /\ PatAt(p + 1) = Ord("f")
           THEN /\ ~matchbracketclass(IF s = 0 THEN 0 ELSE text[s], p + 2,
                                      ItemEnd(p) - 1)
                /\ matchbracketclass(SubjAt(ms, s), p + 2, ItemEnd(p) - 1)
           ELSE IF PatAt(p) = CHAR_ESC /\ isdigit(PatAt(p + 1))
           THEN Matched(match_capture(ms, s, PatAt(p + 1)))
           ELSE /\ ItemEnd(p) = classend(p)
                /\ singlematch(s, p, classend(p))

\* C15: while the MatchState is in use at most MAXCCALLS calls of match have
\* not returned, and matchdepth is MAXCCALLS minus their number; a match
\* that is entered with matchdepth = 0 panics with "pattern too complex" and
\* enters nothing; and an item that match goes on from with goto init
\* (TailItem) leaves the calls and matchdepth as they are.
C15_CallBudget ==
    /\ [](MatchStateLive =>
            /\ Active <= MAXCCALLS
            /\ ms.matchdepth = MAXCCALLS - Active)
    /\ [][(pc = "call" /\ ms.matchdepth = 0) =>
            /\ pc' = "done"
            /\ ret' = Panic("pattern too complex")
            /\ frames' = frames]_vars
    /\ [][(pc = "init" /\ TailItem) =>
            /\ pc' = "init"
            /\ call'.p = ItemEnd(call.p)
            /\ frames' = frames
            /\ ms'.matchdepth = ms.matchdepth]_vars

\* The budget is used up: MAXCCALLS calls of match are waiting and the next
\* one has panicked.
C15_Witness ==
    /\ pc = "done" /\ ret = Panic("pattern too complex")
    /\ Active = MAXCCALLS
    /\ ms.matchdepth = -1

\* The pattern is n times "()", a position capture.
PositionCaptures(n) == pat = Repeat(B(<<"(",")">>), n)

\* C16: while the MatchState is in use the live captures are at most
\* MAXCAPTURES, and a pattern that opens one capture more than MAXCAPTURES,
\* each still live when the next is opened, ends in the panic "too many
\* captures".
C16_TooManyCaptures ==
    /\ MatchStateLive => ms.level <= MAXCAPTURES
    /\ (pc = "done" /\ tried # << >> /\ PositionCaptures(MAXCAPTURES + 1))
          => ret = Panic("too many captures")

(***************************************************************************)
(* Claims about the two engines together                                   *)
(***************************************************************************)
\* cfun_string_find from start: kmp_next stays inside the pattern unless the
\* pattern is empty and a byte of the text is left to compare with pat[0].
find_defined(t, p, st) == Len(p) >= 1 \/ st >= Len(t)

\* cfun_string_find from start, where it is defined: the offset, or -1 for nil
find_result(t, p, st) ==
    IF st >= Len(t) THEN -1
    ELSE kmp_next(t, p, [kmp_init(p) EXCEPT !.i = st]).result

\* The bytes the pattern dialect gives a meaning to.
Specials ==
    {Ord("^"), Ord("$"), Ord("*"), Ord("+"), Ord("?"), Ord("."), Ord("("),
     Ord(")"), Ord("["), Ord("]"), Ord("%"), Ord("-")}

LiteralPattern == \A i \in 1..Len(pat) : pat[i] \notin Specials

\* C17: for a pattern without special bytes, searched from the beginning of
\* the subject, find is defined, string/match returns nil exactly when find
\* does, and otherwise the attempt that matched started at the offset find
\* returns.
C17_LiteralMatchIsFind ==
    (fn = "match" /\ pc = "done" /\ LiteralPattern /\ FirstOffset = 0) =>
        /\ find_defined(text, pat, 0)
        /\ ret = Nil <=> find_result(text, pat, 0) = -1
        /\ ret # Nil =>
              /\ ret.kind = "array"
              /\ tried[Len(tried)].s = find_result(text, pat, 0)

(***************************************************************************)
(* Claims about string/check-set                                           *)
(***************************************************************************)
\* Some byte of set appears in str.
SomeByteAppears == \E i \in 1..Len(pat) : \E k \in 1..Len(text) : pat[i] = text[k]

\* C18: string/check-set called with set and str returns true if some byte
\* of set appears in str, and false if none does.
C18_CheckSetAnyByte ==
    (fn = "checkset" /\ pc = "done" /\ invert = "absent") =>
        ret = WrapBool(SomeByteAppears)

(***************************************************************************)
(* Claims about the items of a pattern                                     *)
(***************************************************************************)
\* The item at p is a single-byte class with a suffix '*', '+', '-' or '?'.
QuantifiedItem(p) ==
    /\ p < p_end
    /\ PatAt(p) \notin {Ord("("), Ord(")")}
    /\ ~(PatAt(p) = Ord("$") /\ p + 1 = p_end)
    /\ ~(PatAt(p) = CHAR_ESC
         /\ (PatAt(p + 1) \in {Ord("b"), Ord("f")} \/ isdigit(PatAt(p + 1))))
    /\ classend(p) >= 0
    /\ PatAt(classend(p)) \in Quantifiers

\* The number of consecutive bytes from s on that the class at p matches.
Run(s, p, ep) ==
    CHOOSE n \in 0..(Len(text) - s) :
        /\ \A k \in 0..(n - 1) : singlematch(s + k, p, ep)
        /\ ~singlematch(s + n, p, ep)

\* The next step tries the remainder of the pattern, from rp on, at s: with
\* a nested match, or in the running one.
TriesRemainder(s, rp) ==
    /\ pc' \in {"call", "init"}
    /\ call' = [s |-> s, p |-> rp]

\* The next step returns res from the call on top of frames.
ReturnsUp(res) ==
    /\ pc' = "return"
    /\ call'.s = res
    /\ frames' = SubSeq(frames, 1, Len(frames) - 1)

\* The call that waits for the remainder is the max_expand of the item at
\* s whose count is n, the shortest count being min.
WaitsAtCount(s, n, min) ==
    pc' = "call" =>
        /\ frames'[Len(frames')].fn = "max_expand"
        /\ frames'[Len(frames')].s = s + min
        /\ frames'[Len(frames')].i = n - min

\* The counts are tried in order, at the item: '*' and '+' start with the
\* longest run, '-' with 0, '?' with 1 if the class matches the byte at s;
\* a '+' whose class does not match the byte at s fails.
FirstCount ==
    LET s == call.s
        p == call.p
        ep == classend(p)
        q == PatAt(ep)
    IN  (pc = "init" /\ QuantifiedItem(p)) =>
           CASE q = Ord("*") ->
                  /\ TriesRemainder(s + Run(s, p, ep), ep + 1)
                  /\ WaitsAtCount(s, Run(s, p, ep), 0)
             [] q = Ord("+") ->
                  IF Run(s, p, ep) = 0
                  THEN pc' = "return" /\ call'.s = NULL /\ frames' = frames
                  ELSE /\ TriesRemainder(s + Run(s, p, ep), ep + 1)
                       /\ WaitsAtCount(s, Run(s, p, ep), 1)
             [] q = Ord("-") -> TriesRemainder(s, ep + 1)
             [] q = Ord("?") ->
                  IF Run(s, p, ep) = 0
                  THEN TriesRemainder(s, ep + 1)
                  ELSE TriesRemainder(s + 1, ep + 1)

\* The counts are tried in order, after the remainder has returned res to
\* the item, whose frame f is on top: a position is returned as it is; after
\* NULL, '*' and '+' try one byte less unless the count was the minimum, '-'
\* tries one byte more if the class matches it, '?' tries 0; otherwise the
\* item returns NULL.
NextCount ==
    LET f == frames[Len(frames)]
        res == call.s
    IN  (pc = "return" /\ frames # << >>
         /\ f.fn \in {"max_expand", "min_expand", "optional"}) =>
           IF res # NULL THEN ReturnsUp(res)
           ELSE CASE f.fn = "max_expand" ->
                       IF f.i > 0
                       THEN TriesRemainder(f.s + f.i - 1, f.ep + 1)
                            /\ frames'[Len(frames')].i = f.i - 1
                       ELSE ReturnsUp(NULL)
                  [] f.fn = "min_expand" ->
                       IF Run(f.s, f.p, f.ep) > 0
                       THEN TriesRemainder(f.s + 1, f.ep + 1)
                            /\ frames'[Len(frames')].s = f.s + 1
                       ELSE ReturnsUp(NULL)
                  [] f.fn = "optional" -> TriesRemainder(f.s, f.ep + 1)

\* C19: for a single-byte class with a suffix, the counts are tried in this
\* order and the first one for which the remainder matches is returned: for
\* '*' and '+' from the longest run of matching bytes down, one at a time,
\* to 0 for '*' and to 1 for '+'; for '-' from 0 up, one at a time, until
\* the class does not match the next byte; for '?' 1 before 0.  The item
\* fails only when the last count of the range has failed.
C19_QuantifierOrder == [][FirstCount /\ NextCount]_vars

\* A '*' or '+' is at its third count, after two longer ones have failed.
C19_Witness ==
    /\ pc = "call"
    /\ frames # << >>
    /\ frames[Len(frames)].fn = "max_expand"
    /\ frames[Len(frames)].i + 2 <=
          Run(frames[Len(frames)].s, frames[Len(frames)].p, frames[Len(frames)].ep)

\* The nesting depth after the bytes s..e of the subject, for the opening
\* byte x and the closing byte y: the byte at s counts +1, each later byte
\* that is y counts -1, each later byte that is x and not y counts +1.
Depth(s, e, x, y) ==
    1 + Cardinality({k \in (s + 1)..e : text[k + 1] = x /\ x # y})
      - Cardinality({k \in (s + 1)..e : text[k + 1] = y})

\* The positions after s, inside the subject, at which the depth is 0.
BalancedEnds(s, x, y) ==
    {e \in (s + 1)..(Len(text) - 1) : Depth(s, e, x, y) = 0}

\* The first of them.
BalancedEnd(s, x, y) ==
    CHOOSE e \in BalancedEnds(s, x, y) : \A k \in BalancedEnds(s, x, y) : e <= k

\* "%bxy" at s has a balanced span.
Balanced(s, x, y) ==
    s < Len(text) /\ text[s + 1] = x /\ BalancedEnds(s, x, y) # {}

\* The item at p is a "%b" with its two bytes.
BalanceItem(p) ==
    PatAt(p) = CHAR_ESC /\ PatAt(p + 1) = Ord("b") /\ p + 3 < p_end

\* C20: "%bxy" at the subject position s matches iff the byte at s is x and
\* the nesting depth returns to 0 at a later position inside the subject;
\* match then goes on with the rest of the pattern after the first such
\* position.  Otherwise the call of match returns NULL and nothing panics.
\* "%b()" on "(a(b)c)rest" returns "(a(b)c)", matched at offset 0.
C20_BalancedSpan ==
    /\ [][(pc = "init" /\ BalanceItem(call.p)) =>
            IF Balanced(call.s, PatAt(call.p + 2), PatAt(call.p + 3))
            THEN /\ pc' = "init"
                 /\ call' = [s |-> BalancedEnd(call.s, PatAt(call.p + 2),
                                               PatAt(call.p + 3)) + 1,
                             p |-> call.p + 4]
                 /\ frames' = frames
            ELSE /\ pc' = "return"
                 /\ call'.s = NULL
                 /\ frames' = frames
                 /\ ms'.err = ""]_vars
    /\ []((pc = "done" /\ pat = B(<<"%","b","(",")">>)
           /\ text = B(<<"(","a","(","b",")","c",")","r","e","s","t">>)
           /\ start = 1) =>
             /\ ret = WrapArr(<<WrapStr(B(<<"(","a","(","b",")","c",")">>))>>)
             /\ tried = <<[s |-> 0, res |-> 7]>>)

\* A "%b" has matched a span with a nested pair in it, and match is at the
\* item after it.
C20_Witness ==
    /\ pc = "init" /\ call.p >= 4 /\ BalanceItem(call.p - 4)
    /\ \E s \in 0..(call.s - 4) :
          /\ Balanced(s, PatAt(call.p - 2), PatAt(call.p - 1))
          /\ BalancedEnd(s, PatAt(call.p - 2), PatAt(call.p - 1)) = call.s - 1
          /\ \E e \in (s + 1)..(call.s - 2) :
                Depth(s, e, PatAt(call.p - 2), PatAt(call.p - 1)) >= 2

\* The item at p is a back reference, "%0" .. "%9".
BackReference(p) == PatAt(p) = CHAR_ESC /\ isdigit(PatAt(p + 1))

\* The capture a back reference at p names is one it may use: its index is
\* below the level and it is not unfinished.
Referable(p) ==
    LET k == PatAt(p + 1) - Ord("1")
    IN  k >= 0 /\ k < ms.level /\ ms.capture[k + 1].len # CAP_UNFINISHED

\* The capture a back reference at p names is a closed span found at s.
SpanFoundAt(p, s) ==
    LET c == ms.capture[PatAt(p + 1) - Ord("1") + 1]
    IN  /\ c.len >= 0
        /\ s + c.len <= Len(text)
        /\ \A k \in 0..(c.len - 1) : text[s + k + 1] = text[c.init + k + 1]

\* C21: a back reference to a capture that is out of range or unfinished
\* panics; a back reference to a closed span that is found at s goes on
\* after its bytes, any other returns NULL; and a match that succeeds with a
\* capture still unfinished ends in a panic when the results are extracted.
C21_CaptureReference ==
    /\ [][(pc = "init" /\ BackReference(call.p)) =>
            IF ~Referable(call.p)
            THEN pc' = "done" /\ ret'.kind = "error" /\ ms'.err # ""
            ELSE IF SpanFoundAt(call.p, call.s)
            THEN /\ pc' = "init"
                 /\ call' = [s |-> call.s +
                                   ms.capture[PatAt(call.p + 1) - Ord("1") + 1].len,
                             p |-> call.p + 2]
                 /\ ms'.err = ""
            ELSE /\ pc' = "return" /\ call'.s = NULL /\ ms'.err = ""]_vars
    /\ []((pc = "done" /\ tried # << >> /\ tried[Len(tried)].res # NULL
           /\ \E k \in 1..ms.level : ms.capture[k].len = CAP_UNFINISHED)
             => ret = Panic("unfinished capture"))

\* A match has ended after a back reference consumed the bytes of a closed
\* span.
C21_Witness ==
    /\ pc = "done" /\ ret.kind = "array"
    /\ \E p \in 0..(p_end - 2) :
          /\ BackReference(p)
          /\ p >= 3 /\ PatAt(0) = Ord("(")
          /\ Referable(p)
          /\ ms.capture[PatAt(p + 1) - Ord("1") + 1].len >= 1

\* The item at p is a frontier "%f[set]" whose set is closed.
FrontierItem(p) ==
    /\ PatAt(p) = CHAR_ESC /\ PatAt(p + 1) = Ord("f")
    /\ PatAt(p + 2) = Ord("[")
    /\ classend(p + 2) >= 0

\* The byte c is inside the set of the frontier at p.
InFrontierSet(c, p) == matchbracketclass(c, p + 2, classend(p + 2) - 1)

\* The byte before s, NUL at the start of the subject.
PreviousByte(s) == IF s = 0 THEN 0 ELSE text[s]

\* C22: a frontier "%f[set]" handled at s goes on at the same s with the
\* item after the ']' when the previous byte (NUL at the start of the
\* subject) is outside the set and the byte at s is inside it, and returns
\* NULL otherwise.
C22_Frontier ==
    [][(pc = "init" /\ call.p < p_end /\ FrontierItem(call.p)) =>
         IF /\ ~InFrontierSet(PreviousByte(call.s), call.p)
            /\ InFrontierSet(SubjAt(ms, call.s), call.p)
         THEN /\ pc' = "init"
              /\ call' = [s |-> call.s, p |-> classend(call.p + 2)]
              /\ ms'.err = ""
              /\ ms'.level = ms.level /\ ms'.capture = ms.capture
         ELSE /\ pc' = "return" /\ call'.s = NULL /\ ms'.err = ""]_vars

\* A frontier that follows a matched byte has succeeded, and the remainder
\* of the pattern is being matched at the same position.
C22_Witness ==
    /\ pc = "init" /\ call.s >= 1
    /\ \E q \in 1..(call.p - 1) :
          /\ FrontierItem(q) /\ classend(q + 2) = call.p
          /\ ~InFrontierSet(PreviousByte(call.s), q)
          /\ InFrontierSet(SubjAt(ms, call.s), q)
          /\ PatAt(q - 1) = PreviousByte(call.s)

\* The length of the longest proper prefix of p that is also a suffix of
\* p[0 .. i].
LongestBorder(p, i) ==
    CHOOSE k \in 0..i :
       /\ SubSeq(p, 1, k) = SubSeq(p, i - k + 2, i + 1)
       /\ \A k2 \in (k + 1)..i : SubSeq(p, 1, k2) # SubSeq(p, i - k2 + 2, i + 1)

\* C23: once kmp_init has run on a non-empty pattern, and for as long as
\* the call lasts (through every kmp_next and kmp_seti), lookup[i] is the
\* length of the longest proper prefix of the pattern that is a suffix of
\* pat[0 .. i], for every i below the pattern's length.
C23_FailureTable ==
    (fn \in KmpFns /\ pc # "entry" /\ start >= 0 /\ Len(pat) >= 1) =>
        /\ Len(state.lookup) = Len(pat)
        /\ \A i \in 0..(Len(pat) - 1) :
              /\ state.lookup[i + 1] = LongestBorder(pat, i)
              /\ 0 <= state.lookup[i + 1] /\ state.lookup[i + 1] <= i

\* A replace-all has ended after hits and rewinds, with a table that holds
\* a border of length 2 reached by falling back from a longer one.
C23_Witness ==
    /\ pc = "done" /\ fn = "replaceall" /\ Len(hits) >= 1
    /\ Len(pat) = 6
    /\ state.lookup = <<0, 1, 0, 1, 2, 2>>

\* C24: every string/match call ends: it reaches its final state, where it
\* has returned an array of captures, returned nil, or raised an error.
C24_MatchTerminates ==
    <>(pc = "done" /\ ret.kind \in {"array", "nil", "error"})

\* A call has ended after its recursion was cut off by the depth budget,
\* and another after max_expand counted down through several attempts.
C24_Witness ==
    /\ pc = "done"
    /\ \/ ret = Panic("pattern too complex") /\ Len(pat) >= MAXCCALLS
       \/ /\ ret.kind = "nil" /\ Len(tried) >= 2
          /\ \E q \in 1..Len(pat) : pat[q] \in {Ord("*"), Ord("+"), Ord("-")}

\* The cursor (i, j) of a scan: j is a position of the pattern, and where i
\* lies within the text the j bytes before it are the first j bytes of the
\* pattern.
CursorHolds(i, j) ==
    /\ 0 <= j /\ j < Len(pat)
    /\ i <= Len(text) => /\ j <= i
                         /\ Slice(text, i - j, j) = Slice(pat, 0, j)

\* The offset the cursor was last set to by findsetup or kmp_seti, where
\* such a call came after the last reported offset.
LastSeti ==
    IF hits = << >> THEN start
    ELSE IF fn = "replaceall" THEN hits[Len(hits)] + Len(pat)
    ELSE -1

\* C25: for a pattern that is not empty, the cursor of every exact-match
\* function, in the loop of kmp_next and as stored in the state, keeps
\* 0 <= j < patlen and text[i - j .. i) = pat[0 .. j); every offset kmp_next
\* reports is an occurrence of the pattern; and the first report after the
\* cursor was set to k is the first occurrence at or after k, or -1 when
\* there is none.
C25_CursorInvariant ==
    (fn \in KmpFns /\ pc \in {"scan", "ret"} /\ Len(pat) >= 1) =>
        /\ CursorHolds(ki, kj)
        /\ CursorHolds(state.i, state.j)
        /\ ~ub
        /\ pc = "ret" =>
              /\ result >= 0 => Occurs(pat, text, result)
              /\ LastSeti >= 0 =>
                    IF Occurrences(pat, text, LastSeti) = {}
                    THEN result = -1
                    ELSE result = Min(Occurrences(pat, text, LastSeti))

\* kmp_next has reported an occurrence after kmp_seti moved the cursor past
\* an earlier one, and stored a cursor that lies inside the pattern.
C25_Witness ==
    /\ fn = "replaceall" /\ pc = "ret" /\ result >= 0
    /\ Len(hits) >= 1 /\ Len(pat) >= 2
    /\ result >= hits[Len(hits)] + Len(pat)
    /\ state.j >= 1

\* A turn of the loop of kmp_next reads text[i] and pat[j], and then one of
\* lookup[j] (a hit, j = patlen - 1) and lookup[j - 1] (a mismatch, j > 0):
\* all of them inside the text, the pattern and the table.
TurnReadsInBounds ==
    /\ 0 <= ki /\ ki < Len(text)
    /\ 0 <= kj /\ kj < Len(pat)
    /\ Len(state.lookup) = Len(pat)

\* C26: for every pattern, the empty one included, every text and every
\* start offset, each turn of the loop of kmp_next reads pat[x] and
\* lookup[x] with 0 <= x < patlen and text[x] with 0 <= x < textlen.
C26_ReadsInBounds ==
    (fn \in KmpFns /\ pc = "scan" /\ ki < Len(text)) => TurnReadsInBounds

\* The same for the patterns that are not empty.
C26_NonEmptyReadsInBounds ==
    (fn \in KmpFns /\ pc = "scan" /\ ki < Len(text) /\ Len(pat) >= 1) =>
        TurnReadsInBounds

\* C27: during a string/match call no byte is read from the subject at an
\* index outside [0, len(subject)): not at or beyond src_end, for every
\* pattern, subject and start offset, attempts at the end of the subject
\* included.
C27_SubjectReadsInBounds ==
    fn = "match" => ~ms.oob
====
